---- MODULE Spec2Model ----
(***************************************************************************)
(* The ecs-trigger command of the dotfiles repository: command-line        *)
(* dispatch (index.ts), cluster / scheduled-task lookup (discovery.ts),    *)
(* the interactive selector (interactive.ts), the network-configuration    *)
(* resolver (discovery.ts) and the task runner (runner.ts).                *)
(*                                                                         *)
(* Conventions.  A value that may be undefined in the TypeScript source is *)
(* a sequence of length at most one: Undefined is <<>>, Some(x) is <<x>>.  *)
(* Cluster names and ARNs are sequences of characters, so that endsWith is *)
(* computed; the other strings are TLA+ strings.  An AWS response is an    *)
(* input of the action that issues the call.                               *)
(***************************************************************************)
EXTENDS Integers, Sequences, FiniteSets, TLC

VARIABLES
  opts,                  \* CLIOptions: list, cluster, rule
  pc,                    \* position of the command in main/run/handle*Mode/runScheduledTask
  listFilter,            \* handleListMode: clusterArn
  listClusters,          \* handleListMode: result of discoverClusters, once settled
  listTasks,             \* handleListMode: result of discoverScheduledTasks, once settled
  selectedCluster,       \* handleExecuteMode: selectedCluster
  selectedTask,          \* handleExecuteMode: selectedTask
  networkConfiguration,  \* runScheduledTask: networkConfiguration
  attempts,              \* waitForTaskStart: attempts
  lastResponse,          \* runScheduledTask: the response of its latest RunTask or DescribeTasks
  result,                \* the Task returned by waitForTaskStart
  error,                 \* the error that ended the run
  exitCode,              \* the exit status of the process
  stdout,                \* what console.log wrote
  stderr,                \* what console.error wrote once the mode handler ran (not the verbose lines)
  events,                \* selector invocations, prompts, confirmation answers and launches, in order
  calls,                 \* number of AWS calls issued, per command
  launchReq,             \* the input of the RunTaskCommand that was sent
  tried,                 \* runScheduledTask: outcome of each resolution strategy
  rpc,                   \* resolver study: position
  rTask,                 \* resolver study: the scheduled task to launch
  rSvcEnv,               \* resolver study: what ListServices / DescribeServices answer
  rTskEnv,               \* resolver study: what ListTasks / DescribeTasks answer
  rOut,                  \* resolver study: what the resolution returned
  dpc,                   \* discovery study: position
  dIn,                   \* discovery study: what the AWS APIs answer, and the arguments
  dAcc,                  \* discovery study: the locals of the function under way
  dOut                   \* discovery study: what the function returned or threw

cliVars == <<opts, pc, listFilter, listClusters, listTasks, selectedCluster, selectedTask,
             networkConfiguration, attempts, lastResponse, result, error, exitCode,
             stdout, stderr, events, calls, launchReq, tried>>
resVars == <<rpc, rTask, rSvcEnv, rTskEnv, rOut>>
disVars == <<dpc, dIn, dAcc, dOut>>
vars == <<cliVars, resVars, disVars>>

(***************************************************************************)
(* Optional values and small helpers                                       *)
(***************************************************************************)
Undefined == <<>>
Some(x) == <<x>>
Defined(m) == Len(m) > 0
Get(m) == m[1]

\* JavaScript truthiness of an optional string (TLA+ string)
Truthy(m) == Defined(m) /\ Get(m) # ""
\* JavaScript truthiness of an optional string (sequence of characters)
TruthyChars(m) == Defined(m) /\ Len(Get(m)) > 0

Min(a, b) == IF a <= b THEN a ELSE b

\* All sequences over S of length at most n
SeqsUpTo(S, n) == UNION {[1..k -> S] : k \in 0..n}

\* Index of the first element of s satisfying the membership test, 0 if none
FirstIndex(s, Good) ==
  IF \E i \in 1..Len(s) : s[i] \in Good
  THEN CHOOSE i \in 1..Len(s) : s[i] \in Good /\ \A j \in 1..(i - 1) : s[j] \notin Good
  ELSE 0

EndsWith(s, suffix) ==
  /\ Len(suffix) <= Len(s)
  /\ SubSeq(s, Len(s) - Len(suffix) + 1, Len(s)) = suffix

(***************************************************************************)
(* Bounds of the model                                                     *)
(***************************************************************************)
MaxClusters == 2        \* clusters in one discovery
MaxPerSource == 1       \* scheduled tasks one discovery source returns
MaxServices == 2        \* services listed in a cluster (command model)
MaxFailures == 2        \* failures in one RunTask response
MaxListing == 11        \* services listed in a cluster (resolver study)
MaxMarked == 2          \* services of the listing that are not plain filler (resolver study)
ListPageSize == 4       \* services per ListServices page when the listing is paginated

(***************************************************************************)
(* errors.ts                                                               *)
(***************************************************************************)
FaultNames == {"ExpiredTokenException", "ThrottlingException", "ServiceUnavailable"}
\* An error: class is the name of the Error object; message and detail together are its
\* message (detail is the part that varies); failures is TaskStartError.failures
MkError(class, message, detail, failures) ==
  [class |-> class, message |-> message, detail |-> detail, failures |-> failures]

\* What an AWS SDK call throws
Faults == {MkError(n, "aws fault", Undefined, Undefined) : n \in FaultNames}

EcsTriggerError(message, detail) == MkError("EcsTriggerError", message, detail, Undefined)
CredentialsError(message) == MkError("CredentialsError", message, Undefined, Undefined)
ClusterNotFoundError(identifier) ==
  MkError("ClusterNotFoundError", "Cluster not found", Some(identifier), Undefined)
\* TaskStartError(message, failures?): the message embeds "arn: reason" of every failure
TaskStartErrorWithFailures(message, detail, failures) ==
  MkError("TaskStartError", message, detail, failures)
TaskStartError(message, detail) == TaskStartErrorWithFailures(message, detail, Undefined)
\* a plain Error, not an EcsTriggerError
PlainError(message) == MkError("Error", message, Undefined, Undefined)

IsEcsTriggerError(e) ==
  e.class \in {"EcsTriggerError", "CredentialsError", "ClusterNotFoundError",
               "RuleNotFoundError", "TaskStartError", "NoEcsTargetError"}

\* handleAWSError(error, profile): by error.name
HandleAWSError(e) ==
  IF e.class \in {"ExpiredTokenException", "ExpiredToken"}
  THEN CredentialsError("Token has expired. Please refresh your credentials.")
  ELSE IF e.class \in {"AccessDeniedException", "AccessDenied"}
  THEN CredentialsError("Access denied. Check your IAM permissions.")
  ELSE IF e.class \in {"CredentialsProviderError", "CredentialsError"}
  THEN CredentialsError("Could not load credentials.")
  ELSE IF e.class \in {"ThrottlingException", "Throttling"}
  THEN EcsTriggerError("AWS API rate limit exceeded. Please try again later.", Undefined)
  ELSE EcsTriggerError(e.message, e.detail)

\* catch (error) { if (error instanceof TaskStartError) throw error; handleAWSError(error) }
RethrowOrHandle(e) == IF e.class = "TaskStartError" THEN e ELSE HandleAWSError(e)

(***************************************************************************)
(* types.ts: the data of the model                                         *)
(***************************************************************************)
\* ClusterInfo (the status and the counts take no part in any decision)
ClusterA == [clusterName |-> <<"a">>, clusterArn |-> <<"c", "/", "a">>]
ClusterB == [clusterName |-> <<"b">>, clusterArn |-> <<"c", "/", "b">>]
Clusters == {ClusterA, ClusterB}

\* A task-definition reference: either a full ARN "...:task-definition/<family>:<rev>"
\* or the short form "<family>" / "<family>:<rev>" (rev "" is: no revision suffix)
TaskDef(isArn, family, rev) == [isArn |-> isArn, family |-> family, rev |-> rev]
TdJob == TaskDef(TRUE, "job", "1")
TdJobNext == TaskDef(TRUE, "job", "2")
TdWeb == TaskDef(TRUE, "web", "1")
TdJobShort == TaskDef(FALSE, "job", "1")

\* NetworkConfiguration of the ECS SDK: { awsvpcConfiguration?: { subnets?, securityGroups?,
\* assignPublicIp? } }
Awsvpc(subnets, securityGroups, assignPublicIp) ==
  [subnets |-> subnets, securityGroups |-> securityGroups, assignPublicIp |-> assignPublicIp]
NetCfg(awsvpc) == [awsvpcConfiguration |-> awsvpc]
CfgOwn == NetCfg(Some(Awsvpc(Some(<<"subnet-own">>), Some(<<"sg-own">>), Some("ENABLED"))))
CfgSvc1 == NetCfg(Some(Awsvpc(Some(<<"subnet-1">>), Some(<<"sg-1">>), Some("DISABLED"))))
CfgSvc2 == NetCfg(Some(Awsvpc(Some(<<"subnet-2">>), Some(<<"sg-2">>), Some("DISABLED"))))
CfgNoSubnets == NetCfg(Some(Awsvpc(Some(<<>>), Some(<<"sg-3">>), Some("DISABLED"))))
CfgNoAwsvpc == NetCfg(Undefined)

\* service.networkConfiguration?.awsvpcConfiguration?.subnets?.length (0 when undefined)
SubnetCount(cfg) ==
  IF ~Defined(cfg) THEN 0
  ELSE IF ~Defined(Get(cfg).awsvpcConfiguration) THEN 0
  ELSE IF ~Defined(Get(Get(cfg).awsvpcConfiguration).subnets) THEN 0
  ELSE Len(Get(Get(Get(cfg).awsvpcConfiguration).subnets))

\* ScheduledTask (ruleArn, scheduleExpression, platformVersion, enabled and taskCount are
\* carried through unread)
ScheduledTask(ruleName, clusterArn, td, cfg, launchType, source) ==
  [ruleName |-> ruleName, clusterArn |-> clusterArn, taskDefinitionArn |-> td,
   networkConfiguration |-> cfg, launchType |-> launchType, source |-> source]

LaunchTypes == {Undefined, Some("EC2"), Some("FARGATE")}

\* What one discovery source can find, before the cluster filter
FoundTasks(source) ==
  IF source = "eventbridge-rules"
  THEN {ScheduledTask("nightly", ClusterA.clusterArn, TdJob, cfg, lt, source) :
           cfg \in {Undefined, Some(CfgOwn)}, lt \in LaunchTypes}
       \cup {ScheduledTask("weekly", ClusterA.clusterArn, TdJob, Undefined, Some("FARGATE"), source),
             ScheduledTask("nightly", ClusterB.clusterArn, TdWeb, Undefined, Some("EC2"), source)}
  ELSE {ScheduledTask("nightly", ClusterA.clusterArn, TdJob, Undefined, Some("FARGATE"), source),
        ScheduledTask("hourly", ClusterA.clusterArn, TdWeb, Some(CfgOwn), Undefined, source)}

(***************************************************************************)
(* discovery.ts: clusters and scheduled tasks                              *)
(***************************************************************************)
\* An answer of AWS to a whole discovery: either a fault or the value
Fault(f) == [ok |-> FALSE, fault |-> f, value |-> <<>>]
Answer(v) == [ok |-> TRUE, fault |-> PlainError(""), value |-> v]

\* discoverClusters as seen by its callers: the clusters, in listing order
ClusterListings ==
  {cs \in SeqsUpTo(Clusters, MaxClusters) : \A i, j \in 1..Len(cs) : i # j => cs[i] # cs[j]}
ClusterAnswers == {Answer(cs) : cs \in ClusterListings} \cup {Fault(f) : f \in Faults}

\* clusters.find(c => c.clusterName === id || c.clusterArn === id || c.clusterArn.endsWith("/" + id))
ClusterMatchesNameOnly(c, id) == c.clusterName = id
ClusterMatches(c, id) ==
  \/ c.clusterName = id
  \/ c.clusterArn = id
  \/ EndsWith(c.clusterArn, <<"/">> \o id)
FindCluster(clusters, id) ==
  LET i == FirstIndex(clusters, {c \in {clusters[k] : k \in 1..Len(clusters)} :
                                   ClusterMatches(c, id)})
  IN IF i = 0 THEN Undefined ELSE Some(clusters[i])

\* What a discovery source answers: the tasks it parsed, before the cluster filter
SourceAnswers(source) ==
  {Answer(ts) : ts \in SeqsUpTo(FoundTasks(source), MaxPerSource)}
  \cup {Fault(f) : f \in Faults}

\* if (clusterArn && task.clusterArn !== clusterArn) continue
FilterByClusterNever(tasks, clusterArn) == tasks
FilterByCluster(tasks, clusterArn) ==
  SelectSeq(tasks, LAMBDA t : ~TruthyChars(clusterArn) \/ t.clusterArn = Get(clusterArn))

\* discoverScheduledTasks: a failed source contributes nothing
SourceResult(answer, clusterArn) ==
  IF answer.ok THEN FilterByCluster(answer.value, clusterArn) ELSE <<>>
DiscoverScheduledTasksByName(rulesAnswer, schedulerAnswer, clusterArn) ==
  LET rules == SourceResult(rulesAnswer, clusterArn)
  IN rules \o SelectSeq(SourceResult(schedulerAnswer, clusterArn),
                        LAMBDA t : \A i \in 1..Len(rules) : rules[i].ruleName # t.ruleName)
DiscoverScheduledTasks(rulesAnswer, schedulerAnswer, clusterArn) ==
  SourceResult(rulesAnswer, clusterArn) \o SourceResult(schedulerAnswer, clusterArn)

\* tasks.find(t => t.ruleName === ruleName)
FindScheduledTaskByRuleLast(tasks, ruleName) ==
  LET hits == {k \in 1..Len(tasks) : tasks[k].ruleName = ruleName}
  IN IF hits = {} THEN Undefined ELSE Some(tasks[CHOOSE k \in hits : \A j \in hits : j <= k])
FindScheduledTaskByRule(tasks, ruleName) ==
  LET i == FirstIndex(tasks, {t \in {tasks[k] : k \in 1..Len(tasks)} : t.ruleName = ruleName})
  IN IF i = 0 THEN Undefined ELSE Some(tasks[i])

\* /task-definition\/([^:]+)/: the family of a full ARN, else the whole string
GetTaskDefinitionFamily(td) ==
  IF td.isArn \/ td.rev = "" THEN <<td.family>> ELSE <<td.family, td.rev>>


(***************************************************************************)
(* discovery.ts: network configuration from a sibling service              *)
(***************************************************************************)
ServiceBatch == 10

\* A service as DescribeServices returns it
Service(td, cfg) == [taskDefinition |-> td, networkConfiguration |-> cfg]
\* a service of another family that has no network configuration
Filler == Service(Some(TdWeb), Undefined)

\* What the ECS API answers to the service strategy: the pages of ListServices, and which
\* ListServices / DescribeServices call (counted from 1; 0: none) throws
ServiceEnv(pages, listFaultAt, describeFaultAt) ==
  [pages |-> pages, listFaultAt |-> listFaultAt, describeFaultAt |-> describeFaultAt]

RECURSIVE Flatten(_)
Flatten(pages) == IF pages = <<>> THEN <<>> ELSE Head(pages) \o Flatten(Tail(pages))

\* first pass: serviceFamily === targetFamily && service.networkConfiguration
ExactMatch(service, targetFamily) ==
  /\ Defined(service.taskDefinition)
  /\ GetTaskDefinitionFamily(Get(service.taskDefinition)) = targetFamily
  /\ Defined(service.networkConfiguration)
\* second pass: service.networkConfiguration?.awsvpcConfiguration?.subnets?.length
Usable(service) == SubnetCount(service.networkConfiguration) > 0
Wanted(pass, service, targetFamily) ==
  IF pass = "exact" THEN ExactMatch(service, targetFamily) ELSE Usable(service)

ScanResult(found, threw, cfg, describeCalls) ==
  [found |-> found, threw |-> threw, cfg |-> cfg, describeCalls |-> describeCalls]

\* for (let i = 0; i < serviceArns.length; i += 10) { describe the batch; return the first
\* wanted service of it }: i is the offset, n the DescribeServices calls issued so far
RECURSIVE ScanServices(_, _, _, _, _, _)
ScanServices(services, i, n, faultAt, pass, targetFamily) ==
  IF i >= Len(services) THEN ScanResult(FALSE, FALSE, Undefined, n)
  ELSE IF n + 1 = faultAt THEN ScanResult(FALSE, TRUE, Undefined, n + 1)
  ELSE LET batch == SubSeq(services, i + 1, Min(i + ServiceBatch, Len(services)))
           hits == {k \in 1..Len(batch) : Wanted(pass, batch[k], targetFamily)}
       IN IF hits # {}
          THEN ScanResult(TRUE, FALSE,
                          batch[CHOOSE k \in hits : \A j \in hits : k <= j].networkConfiguration,
                          n + 1)
          ELSE ScanServices(services, i + ServiceBatch, n + 1, faultAt, pass, targetFamily)

Resolution(cfg, listCalls, describeCalls, caught) ==
  [cfg |-> cfg, listCalls |-> listCalls, describeCalls |-> describeCalls, caught |-> caught]

FindNetworkConfigurationFromService(env, taskDefinitionArn) ==
  LET targetFamily == GetTaskDefinitionFamily(taskDefinitionArn)
      listThrows == env.listFaultAt \in 1..Len(env.pages)
      serviceArns == Flatten(env.pages)
      exact == ScanServices(serviceArns, 0, 0, env.describeFaultAt, "exact", targetFamily)
      any == ScanServices(serviceArns, 0, exact.describeCalls, env.describeFaultAt,
                          "any", targetFamily)
  IN IF listThrows THEN Resolution(Undefined, env.listFaultAt, 0, TRUE)
     ELSE IF Len(serviceArns) = 0 THEN Resolution(Undefined, Len(env.pages), 0, FALSE)
     ELSE IF exact.threw THEN Resolution(Undefined, Len(env.pages), exact.describeCalls, TRUE)
     ELSE IF exact.found THEN Resolution(exact.cfg, Len(env.pages), exact.describeCalls, FALSE)
     ELSE Resolution(any.cfg, Len(env.pages), any.describeCalls, any.threw)

(***************************************************************************)
(* discovery.ts: network configuration from the task history               *)
(***************************************************************************)
Detail(name, value) == [name |-> name, value |-> value]
Attachment(type, details) == [type |-> type, details |-> details]
HistTask(td, attachments) == [taskDefinitionArn |-> td, attachments |-> attachments]

Eni(subnet) ==
  Attachment(Some("ElasticNetworkInterface"),
             Some(<<Detail(Some("networkInterfaceId"), Some("eni-1")),
                    Detail(Some("subnetId"), Some(subnet))>>))
EniNoSubnet ==
  Attachment(Some("ElasticNetworkInterface"),
             Some(<<Detail(Some("networkInterfaceId"), Some("eni-1"))>>))
EniNoDetails == Attachment(Some("ElasticNetworkInterface"), Undefined)
OtherAttachment ==
  Attachment(Some("AmazonElasticBlockStorage"), Some(<<Detail(Some("subnetId"), Some("subnet-x"))>>))

\* const eniAttachment = attachments.find(a => a.type === "ElasticNetworkInterface") ...
ExtractNetworkConfigFromTaskAnyAttachment(attachments) ==
  LET e == FirstIndex(attachments,
                      {a \in {attachments[k] : k \in 1..Len(attachments)} : Defined(a.details)})
      details == Get(attachments[e].details)
      d == FirstIndex(details,
                      {x \in {details[k] : k \in 1..Len(details)} : x.name = Some("subnetId")})
  IN IF e = 0 THEN Undefined
     ELSE IF d = 0 THEN Undefined
     ELSE IF ~Truthy(details[d].value) THEN Undefined
     ELSE Some(NetCfg(Some(Awsvpc(Some(<<Get(details[d].value)>>), Undefined, Some("DISABLED")))))
ExtractNetworkConfigFromTask(attachments) ==
  LET e == FirstIndex(attachments,
                      {a \in {attachments[k] : k \in 1..Len(attachments)} :
                          a.type = Some("ElasticNetworkInterface")})
      details == Get(attachments[e].details)
      d == FirstIndex(details,
                      {x \in {details[k] : k \in 1..Len(details)} : x.name = Some("subnetId")})
  IN IF e = 0 THEN Undefined
     ELSE IF ~Defined(attachments[e].details) THEN Undefined
     ELSE IF d = 0 THEN Undefined
     ELSE IF ~Truthy(details[d].value) THEN Undefined
     ELSE Some(NetCfg(Some(Awsvpc(Some(<<Get(details[d].value)>>), Undefined, Some("DISABLED")))))

\* the first task of the same family whose attachments give a configuration, else the first
\* task whose attachments give one
SameFamilyGives(t, targetFamily) ==
  /\ Defined(t.taskDefinitionArn)
  /\ GetTaskDefinitionFamily(Get(t.taskDefinitionArn)) = targetFamily
  /\ Defined(t.attachments)
  /\ Defined(ExtractNetworkConfigFromTask(Get(t.attachments)))
AnyGives(t) ==
  /\ Defined(t.attachments)
  /\ Defined(ExtractNetworkConfigFromTask(Get(t.attachments)))
ConfigFromDescribedTasks(tasks, targetFamily) ==
  LET all == {tasks[k] : k \in 1..Len(tasks)}
      m == FirstIndex(tasks, {t \in all : SameFamilyGives(t, targetFamily)})
      a == FirstIndex(tasks, {t \in all : AnyGives(t)})
  IN IF m > 0 THEN ExtractNetworkConfigFromTask(Get(tasks[m].attachments))
     ELSE IF a > 0 THEN ExtractNetworkConfigFromTask(Get(tasks[a].attachments))
     ELSE Undefined

\* What the ECS API answers for one desiredStatus: the tasks listed (and described), and
\* whether ListTasks or DescribeTasks throws
HistoryAnswer(tasks, listThrows, describeThrows) ==
  [tasks |-> tasks, listThrows |-> listThrows, describeThrows |-> describeThrows]
HistoryEnv(running, stopped) == [RUNNING |-> running, STOPPED |-> stopped]

DesiredStatuses == <<"RUNNING", "STOPPED">>

\* for (const desiredStatus of ["RUNNING", "STOPPED"]): listed is the sequence of statuses
\* ListTasks was called with, n the DescribeTasks calls issued
RECURSIVE ScanHistoryUntilListed(_, _, _, _, _)
ScanHistoryUntilListed(env, s, listed, n, targetFamily) ==
  IF s > Len(DesiredStatuses) THEN Resolution(Undefined, listed, n, FALSE)
  ELSE LET answer == env[DesiredStatuses[s]]
           now == Append(listed, DesiredStatuses[s])
       IN IF answer.listThrows THEN Resolution(Undefined, now, n, TRUE)
          ELSE IF Len(answer.tasks) = 0
          THEN ScanHistoryUntilListed(env, s + 1, now, n, targetFamily)
          ELSE IF answer.describeThrows THEN Resolution(Undefined, now, n + 1, TRUE)
          ELSE Resolution(ConfigFromDescribedTasks(answer.tasks, targetFamily), now, n + 1, FALSE)
RECURSIVE ScanHistory(_, _, _, _, _)
ScanHistory(env, s, listed, n, targetFamily) ==
  IF s > Len(DesiredStatuses) THEN Resolution(Undefined, listed, n, FALSE)
  ELSE LET answer == env[DesiredStatuses[s]]
           now == Append(listed, DesiredStatuses[s])
           cfg == ConfigFromDescribedTasks(answer.tasks, targetFamily)
       IN IF answer.listThrows THEN Resolution(Undefined, now, n, TRUE)
          ELSE IF Len(answer.tasks) = 0 THEN ScanHistory(env, s + 1, now, n, targetFamily)
          ELSE IF answer.describeThrows THEN Resolution(Undefined, now, n + 1, TRUE)
          ELSE IF Defined(cfg) THEN Resolution(cfg, now, n + 1, FALSE)
          ELSE ScanHistory(env, s + 1, now, n + 1, targetFamily)

FindNetworkConfigurationFromTasks(env, taskDefinitionArn) ==
  ScanHistory(env, 1, <<>>, 0, GetTaskDefinitionFamily(taskDefinitionArn))


(***************************************************************************)
(* runner.ts: pure parts                                                   *)
(***************************************************************************)
MAX_POLL_ATTEMPTS == 30

\* lines 40-61 of runScheduledTask: the service strategy, then (only if it gave nothing) the
\* task-history strategy
NotRun == Resolution(Undefined, <<>>, 0, FALSE)

\* line 49: if (!networkConfiguration) { ... findNetworkConfigurationFromTasks ... }
RunsHistoryAlways(fromServiceCfg) == TRUE
RunsHistory(fromServiceCfg) == ~Defined(fromServiceCfg)

\* the ECS calls of the two strategies in the order they are issued: the service strategy
\* lists all pages before it describes; the task-history strategy lists and describes per
\* desiredStatus
Repeat(x, n) == [i \in 1..n |-> x]
ServiceLog(r) == Repeat("ListServices", r.listCalls) \o Repeat("DescribeServices", r.describeCalls)
RECURSIVE HistoryLog(_, _, _)
HistoryLog(env, s, targetFamily) ==
  IF s > Len(DesiredStatuses) THEN <<>>
  ELSE LET answer == env[DesiredStatuses[s]]
       IN IF answer.listThrows THEN <<"ListTasks">>
          ELSE IF Len(answer.tasks) = 0
          THEN <<"ListTasks">> \o HistoryLog(env, s + 1, targetFamily)
          ELSE IF answer.describeThrows \/ Defined(ConfigFromDescribedTasks(answer.tasks, targetFamily))
          THEN <<"ListTasks", "DescribeTasks">>
          ELSE <<"ListTasks", "DescribeTasks">> \o HistoryLog(env, s + 1, targetFamily)

ResolveNetworkConfiguration(svcEnv, tskEnv, taskDefinitionArn) ==
  LET fromService == FindNetworkConfigurationFromService(svcEnv, taskDefinitionArn)
      historyRan == RunsHistory(fromService.cfg)
      fromTasks == IF historyRan
                   THEN FindNetworkConfigurationFromTasks(tskEnv, taskDefinitionArn)
                   ELSE NotRun
  IN [cfg |-> IF historyRan THEN fromTasks.cfg ELSE fromService.cfg,
      service |-> fromService,
      historyRan |-> historyRan,
      history |-> fromTasks,
      log |-> ServiceLog(fromService)
              \o (IF historyRan
                  THEN HistoryLog(tskEnv, 1, GetTaskDefinitionFamily(taskDefinitionArn))
                  ELSE <<>>)]

\* lines 63-68: if (!networkConfiguration) throw new TaskStartError(...)
AfterResolutionLaunchAnyway(cfg) == "launch"
AfterResolution(cfg) == IF Defined(cfg) THEN "launch" ELSE "throw"

\* if (!networkConfiguration && task.launchType === "FARGATE")
NeedsResolutionAnyLaunchType(task) == ~Defined(task.networkConfiguration)
NeedsResolution(task) ==
  ~Defined(task.networkConfiguration) /\ task.launchType = Some("FARGATE")

\* RunTaskCommand input (platformVersion, count and startedBy are carried through)
RunTaskInput(task, cfg) ==
  [cluster |-> task.clusterArn, taskDefinition |-> task.taskDefinitionArn,
   launchType |-> task.launchType, networkConfiguration |-> cfg]

\* A failure of a RunTask response, and a task of it
Failure(arn, reason) == [arn |-> arn, reason |-> reason, detail |-> Some("detail")]
FailureSet == {Failure(a, r) : a \in {Undefined, Some("arn:task/1")},
                               r \in {Undefined, Some("RESOURCE:MEMORY")}}
StartedTasks == {Undefined, Some(<<>>), Some(<<[taskArn |-> Undefined]>>),
                 Some(<<[taskArn |-> Some("arn:task/1")]>>)}
\* A RunTask response: the call throws, or it returns failures and tasks
RunTaskThrows(f) == [threw |-> TRUE, fault |-> f, failures |-> Undefined, tasks |-> Undefined]
RunTaskReturns(failures, tasks) ==
  [threw |-> FALSE, fault |-> PlainError(""), failures |-> failures, tasks |-> tasks]
RunTaskResponses ==
  {RunTaskThrows(f) : f \in Faults}
  \cup {RunTaskReturns(fs, ts) :
          fs \in {Undefined} \cup {Some(x) : x \in SeqsUpTo(FailureSet, MaxFailures)},
          ts \in StartedTasks}

\* response.failures.map(f => ({ arn: f.arn, reason: f.reason }))
MapFailuresFirstOnly(failures) ==
  <<[arn |-> failures[1].arn, reason |-> failures[1].reason]>>
MapFailures(failures) ==
  [i \in 1..Len(failures) |-> [arn |-> failures[i].arn, reason |-> failures[i].reason]]

\* lines 86-103: what the launch response means
LaunchOutcome(response) ==
  IF response.threw THEN [ok |-> FALSE, error |-> response.fault]
  ELSE IF Defined(response.failures) /\ Len(Get(response.failures)) > 0
  THEN [ok |-> FALSE,
        error |-> TaskStartErrorWithFailures("Task failed to start", Undefined,
                                             Some(MapFailures(Get(response.failures))))]
  ELSE IF ~Defined(response.tasks) \/ Len(Get(response.tasks)) = 0
  THEN [ok |-> FALSE, error |-> TaskStartError("No tasks returned from RunTask command", Undefined)]
  ELSE IF ~Truthy(Get(response.tasks)[1].taskArn)
  THEN [ok |-> FALSE, error |-> TaskStartError("Task started but no ARN returned", Undefined)]
  ELSE [ok |-> TRUE, error |-> PlainError("")]

\* A task as DescribeTasks returns it (the fields the polling reads)
Snapshot(lastStatus, stopCode, stoppedReason) ==
  [lastStatus |-> lastStatus, stopCode |-> stopCode, stoppedReason |-> stoppedReason]
Statuses == {Undefined, Some("PENDING"), Some("RUNNING"), Some("STOPPED"), Some("DEPROVISIONING")}
Snapshots == {Snapshot(st, code, reason) :
                 st \in Statuses,
                 code \in {Undefined, Some("TaskFailedToStart")},
                 reason \in {Undefined, Some("CannotPullContainerError")}}
\* A DescribeTasks response: the call throws, or it returns tasks (possibly none)
DescribeThrows(f) == [threw |-> TRUE, fault |-> f, tasks |-> Undefined]
DescribeReturns(tasks) == [threw |-> FALSE, fault |-> PlainError(""), tasks |-> tasks]
DescribeResponses ==
  {DescribeThrows(f) : f \in Faults}
  \cup {DescribeReturns(Undefined), DescribeReturns(Some(<<>>))}
  \cup {DescribeReturns(Some(<<t>>)) : t \in Snapshots}

HasTask(response) == ~response.threw /\ Defined(response.tasks) /\ Len(Get(response.tasks)) > 0
TaskOf(response) == Get(response.tasks)[1]

IsStartedStatus(status) == status \in {Some("RUNNING"), Some("STOPPED"), Some("DEPROVISIONING")}
\* task.stopCode || task.stoppedReason
HasStop(task) == Truthy(task.stopCode) \/ Truthy(task.stoppedReason)
\* task.stoppedReason || task.stopCode || "unknown reason"
StopDetail(task) ==
  IF Truthy(task.stoppedReason) THEN task.stoppedReason
  ELSE IF Truthy(task.stopCode) THEN task.stopCode
  ELSE Some("unknown reason")

\* lines 139-174: one iteration of the polling loop on the response of its describe
PollVerdictRetryNotFound(response) ==
  IF response.threw THEN "fault"
  ELSE IF ~HasTask(response) THEN "sleep"
  ELSE IF IsStartedStatus(TaskOf(response).lastStatus) THEN "return"
  ELSE IF HasStop(TaskOf(response)) THEN "stopped"
  ELSE "sleep"
PollVerdictIgnoringStop(response) ==
  IF response.threw THEN "fault"
  ELSE IF ~HasTask(response) THEN "notFound"
  ELSE IF IsStartedStatus(TaskOf(response).lastStatus) THEN "return"
  ELSE "sleep"
PollVerdictRunningOnly(response) ==
  IF response.threw THEN "fault"
  ELSE IF ~HasTask(response) THEN "notFound"
  ELSE IF TaskOf(response).lastStatus = Some("RUNNING") THEN "return"
  ELSE IF HasStop(TaskOf(response)) THEN "stopped"
  ELSE "sleep"
PollVerdict(response) ==
  IF response.threw THEN "fault"
  ELSE IF ~HasTask(response) THEN "notFound"
  ELSE IF IsStartedStatus(TaskOf(response).lastStatus) THEN "return"
  ELSE IF HasStop(TaskOf(response)) THEN "stopped"
  ELSE "sleep"

\* what an iteration throws: the fault of the call, or a TaskStartError of its own
PollError(response) ==
  IF PollVerdict(response) = "fault" THEN response.fault
  ELSE IF PollVerdict(response) = "notFound"
  THEN TaskStartError("Task not found during polling", Undefined)
  ELSE TaskStartError("Task stopped", StopDetail(TaskOf(response)))

\* lines 184-195: the describe after the attempts are used up
FinalVerdictTimeout(response) ==
  IF response.threw THEN "fault" ELSE "timedOut"
FinalVerdict(response) ==
  IF response.threw THEN "fault"
  ELSE IF HasTask(response) THEN "return"
  ELSE "timedOut"


FinalError(response) ==
  IF FinalVerdict(response) = "fault" THEN response.fault
  ELSE TaskStartError("Task polling timed out", Undefined)

(***************************************************************************)
(* The command: inputs                                                     *)
(***************************************************************************)
\* --cluster: absent, given empty, a known name, an unknown name
ClusterArgs == {Undefined, Some(<<>>), Some(<<"a">>), Some(<<"z">>)}
\* --rule: absent, a known rule, an unknown rule
RuleArgs == {Undefined, Some("nightly"), Some("yearly")}
\* CLIOptions (profile and region name the account; verbose only adds diagnostic lines)
Options == [list : BOOLEAN, cluster : ClusterArgs, rule : RuleArgs]

\* Services and task history the ECS API may report to the command
CmdServices == {Service(Some(TdJobNext), Some(CfgSvc1)), Service(Some(TdWeb), Some(CfgSvc2)),
                Service(Some(TdJob), Some(CfgNoSubnets)), Filler}
CmdServiceEnvs ==
  {ServiceEnv(<<listing>>, lf, df) :
      listing \in SeqsUpTo(CmdServices, MaxServices), lf \in {0, 1}, df \in {0, 1}}
HistJob == HistTask(Some(TdJob), Some(<<Eni("subnet-h1")>>))
HistWeb == HistTask(Some(TdWeb), Some(<<Eni("subnet-h2")>>))
HistBare == HistTask(Some(TdJob), Undefined)
CmdHistoryEnvs ==
  {HistoryEnv(HistoryAnswer(r, lf, FALSE), HistoryAnswer(st, FALSE, df)) :
      r \in {<<>>, <<HistBare>>}, st \in {<<>>, <<HistWeb>>}, lf \in BOOLEAN, df \in BOOLEAN}

NoCalls == [runTask |-> 0, describeTasks |-> 0, sleeps |-> 0, listServices |-> 0,
            describeServices |-> 0, listTasks |-> 0, describeHistory |-> 0]

IdleDiscovery ==
  /\ dpc = "off"
  /\ dIn = Undefined
  /\ dAcc = Undefined
  /\ dOut = Undefined

IdleResolver ==
  /\ rpc = "off"
  /\ rTask = Undefined
  /\ rSvcEnv = Undefined
  /\ rTskEnv = Undefined
  /\ rOut = Undefined

Init ==
  /\ opts \in Options
  /\ pc = "main"
  /\ listFilter = Undefined
  /\ listClusters = Undefined
  /\ listTasks = Undefined
  /\ selectedCluster = Undefined
  /\ selectedTask = Undefined
  /\ networkConfiguration = Undefined
  /\ attempts = 0
  /\ lastResponse = Undefined
  /\ result = Undefined
  /\ error = Undefined
  /\ exitCode = Undefined
  /\ stdout = <<>>
  /\ stderr = <<>>
  /\ events = <<>>
  /\ calls = NoCalls
  /\ launchReq = Undefined
  /\ tried = Undefined
  /\ IdleResolver
  /\ IdleDiscovery

\* main, lines 79-88 and 246-249: an error that reaches the top level ends the process
\* with status 1 (an EcsTriggerError as "Error: ...", any other as "Unexpected error")
ErrorLine(e) ==
  [text |-> IF IsEcsTriggerError(e) THEN "Error: " ELSE "Unexpected error:",
   value |-> Some(e.message), after |-> Len(stdout)]
Throw(e) ==
  /\ pc' = "exited"
  /\ error' = Some(e)
  /\ stderr' = Append(stderr, ErrorLine(e))
  /\ exitCode' = Some(1)

listVars == <<listFilter, listClusters, listTasks>>
pickVars == <<selectedCluster, selectedTask>>
runVars == <<networkConfiguration, attempts, lastResponse, result, calls, launchReq, tried>>

(***************************************************************************)
(* index.ts: run and handleListMode                                        *)
(***************************************************************************)
\* lines 107-113: if (list) handleListMode else handleExecuteMode
DispatchIgnoringList(o) == "cluster"
Dispatch(o) == IF o.list THEN "list" ELSE "cluster"

\* run, lines 91-114: create the clients, then dispatch on --list
Run ==
  /\ pc = "main"
  /\ \E credentialsOk \in BOOLEAN :
       IF credentialsOk
       THEN /\ pc' = Dispatch(opts)
            /\ UNCHANGED <<error, stderr, exitCode>>
       ELSE Throw(CredentialsError("credentials cannot be resolved"))
  /\ UNCHANGED <<opts, listVars, pickVars, runVars, stdout, events, resVars, disVars>>

\* handleListMode, lines 126-131: the cluster filter, by findClusterByName
ListFindCluster ==
  /\ pc = "list"
  /\ IF TruthyChars(opts.cluster)
     THEN \E answer \in ClusterAnswers :
            IF ~answer.ok
            THEN Throw(HandleAWSError(answer.fault)) /\ UNCHANGED listFilter
            ELSE IF ~Defined(FindCluster(answer.value, Get(opts.cluster)))
            THEN Throw(ClusterNotFoundError(Get(opts.cluster))) /\ UNCHANGED listFilter
            ELSE /\ listFilter' = Some(Get(FindCluster(answer.value, Get(opts.cluster))).clusterArn)
                 /\ pc' = "discover"
                 /\ UNCHANGED <<error, stderr, exitCode>>
     ELSE /\ pc' = "discover"
          /\ UNCHANGED <<listFilter, error, stderr, exitCode>>
  /\ UNCHANGED <<opts, listClusters, listTasks, pickVars, runVars, stdout, events, resVars, disVars>>

\* handleListMode, lines 133-136: the two discoveries of Promise.all settle in either order
ListDiscoverClusters ==
  /\ pc = "discover"
  /\ ~Defined(listClusters)
  /\ \E answer \in ClusterAnswers :
       IF answer.ok
       THEN listClusters' = Some(answer.value) /\ UNCHANGED <<pc, error, stderr, exitCode>>
       ELSE Throw(HandleAWSError(answer.fault)) /\ UNCHANGED listClusters
  /\ UNCHANGED <<opts, listFilter, listTasks, pickVars, runVars, stdout, events, resVars, disVars>>

ListDiscoverTasks ==
  /\ pc = "discover"
  /\ ~Defined(listTasks)
  /\ \E rules \in SourceAnswers("eventbridge-rules"),
        scheduler \in SourceAnswers("eventbridge-scheduler") :
       listTasks' = Some(DiscoverScheduledTasks(rules, scheduler, listFilter))
  /\ UNCHANGED <<opts, pc, listFilter, listClusters, pickVars, runVars, error, stderr, exitCode,
                 stdout, events, resVars, disVars>>

\* handleListMode, lines 138-159: the JSON of both results
ListOutput ==
  /\ pc = "discover"
  /\ Defined(listClusters)
  /\ Defined(listTasks)
  /\ stdout' = Append(stdout, [kind |-> "list", clusters |-> Get(listClusters),
                               scheduledTasks |-> Get(listTasks)])
  /\ pc' = "exited"
  /\ exitCode' = Some(0)
  /\ UNCHANGED <<opts, listVars, pickVars, runVars, error, stderr, events, resVars, disVars>>

(***************************************************************************)
(* index.ts: handleExecuteMode, with interactive.ts                        *)
(***************************************************************************)
\* selectCluster / selectScheduledTask: the events of a selection among items, the last of
\* which is the prompt when there is more than one item
SelectEvents(what, items) ==
  IF Len(items) > 1 THEN <<"select" \o what, "prompt" \o what>> ELSE <<"select" \o what>>

\* lines 169-179: findClusterByName, or discoverClusters and selectCluster
ResolveCluster ==
  /\ pc = "cluster"
  /\ \E answer \in ClusterAnswers :
       IF ~answer.ok
       THEN Throw(HandleAWSError(answer.fault)) /\ UNCHANGED <<selectedCluster, events>>
       ELSE IF TruthyChars(opts.cluster)
       THEN IF Defined(FindCluster(answer.value, Get(opts.cluster)))
            THEN /\ selectedCluster' = FindCluster(answer.value, Get(opts.cluster))
                 /\ pc' = "task"
                 /\ UNCHANGED <<error, stderr, exitCode, events>>
            ELSE /\ Throw(ClusterNotFoundError(Get(opts.cluster)))
                 /\ UNCHANGED <<selectedCluster, events>>
       ELSE /\ events' = events \o SelectEvents("Cluster", answer.value)
            /\ IF Len(answer.value) = 0
               THEN Throw(PlainError("No ECS clusters found")) /\ UNCHANGED selectedCluster
               ELSE /\ \E choice \in 1..Len(answer.value) :
                         selectedCluster' = Some(answer.value[choice])
                    /\ pc' = "task"
                    /\ UNCHANGED <<error, stderr, exitCode>>
  /\ UNCHANGED <<opts, listVars, selectedTask, runVars, stdout, resVars, disVars>>

\* line 219: if (!clusterName || !ruleName)
AsksConfirmationAlways(o) == TRUE
AsksConfirmationNever(o) == FALSE
AsksConfirmation(o) == ~TruthyChars(o.cluster) \/ ~Truthy(o.rule)

\* lines 185-216: findScheduledTaskByRule, or discoverScheduledTasks and selectScheduledTask
ResolveTask ==
  /\ pc = "task"
  /\ \E rules \in SourceAnswers("eventbridge-rules"),
        scheduler \in SourceAnswers("eventbridge-scheduler") :
       LET tasks == DiscoverScheduledTasks(rules, scheduler, Some(Get(selectedCluster).clusterArn))
           next == IF AsksConfirmation(opts) THEN "confirm" ELSE "runner"
       IN IF Truthy(opts.rule)
          THEN IF Defined(FindScheduledTaskByRule(tasks, Get(opts.rule)))
               THEN /\ selectedTask' = FindScheduledTaskByRule(tasks, Get(opts.rule))
                    /\ pc' = next
                    /\ UNCHANGED <<error, stderr, exitCode, events>>
               ELSE /\ Throw(EcsTriggerError("No scheduled task found with rule", opts.rule))
                    /\ UNCHANGED <<selectedTask, events>>
          ELSE /\ events' = events \o SelectEvents("Task", tasks)
               /\ IF Len(tasks) = 0
                  THEN Throw(PlainError("No scheduled tasks found")) /\ UNCHANGED selectedTask
                  ELSE /\ \E choice \in 1..Len(tasks) : selectedTask' = Some(tasks[choice])
                       /\ pc' = next
                       /\ UNCHANGED <<error, stderr, exitCode>>
  /\ UNCHANGED <<opts, listVars, selectedCluster, runVars, stdout, resVars, disVars>>

\* lines 220-224: where the answer of confirmExecution leads
ConfirmedOutcomeIgnoringAnswer(confirmed) == "runner"
ConfirmedOutcome(confirmed) == IF confirmed THEN "runner" ELSE "exited"

\* lines 218-225: confirmExecution; "No, cancel" returns without launching
Confirm ==
  /\ pc = "confirm"
  /\ \E yes \in BOOLEAN :
       /\ events' = Append(events, IF yes THEN "confirmYes" ELSE "confirmNo")
       /\ IF ConfirmedOutcome(yes) = "runner"
          THEN pc' = "runner" /\ UNCHANGED <<exitCode, stderr>>
          ELSE /\ stderr' = Append(stderr, [text |-> "Cancelled", value |-> Undefined,
                                            after |-> Len(stdout)])
               /\ pc' = "exited"
               /\ exitCode' = Some(0)
  /\ UNCHANGED <<opts, listVars, pickVars, runVars, error, stdout, resVars, disVars>>


(***************************************************************************)
(* runner.ts: runScheduledTask and waitForTaskStart, as called from        *)
(* handleExecuteMode                                                       *)
(***************************************************************************)
\* runner.ts line 119 and index.ts lines 239-243: the task is formatted, returned and
\* printed, and the command ends
\* runner.ts lines 198-221, formatTaskResult: the fields of the Task that the result copies
\* (of those the model's Task carries); the result has no other property
FormatTaskResult(task) == [lastStatus |-> task.lastStatus]
\* index.ts line 243, result.consoleUrl: reading a property the object does not have
\* gives undefined
ConsoleUrl(res) == IF "consoleUrl" \in DOMAIN res THEN Some(res.consoleUrl) ELSE Undefined

Finish(task) ==
  /\ result' = Some(task)
  /\ stdout' = Append(stdout, [kind |-> "result", task |-> task])
  /\ stderr' = Append(stderr, [text |-> "AWS Console: ",
                               value |-> ConsoleUrl(FormatTaskResult(task)),
                               after |-> Len(stdout) + 1])
  /\ pc' = "exited"
  /\ exitCode' = Some(0)
  /\ UNCHANGED error

\* lines 33-35: the task's own configuration, and whether one must be searched
StartRun ==
  /\ pc = "runner"
  /\ networkConfiguration' = Get(selectedTask).networkConfiguration
  /\ pc' = IF NeedsResolution(Get(selectedTask)) THEN "resolve" ELSE "launch"
  /\ UNCHANGED <<opts, listVars, pickVars, attempts, lastResponse, result, calls, launchReq,
                 tried, error, stderr, exitCode, stdout, events, resVars, disVars>>

\* lines 40-68: both strategies; nothing found is a TaskStartError
ResolveNetwork ==
  /\ pc = "resolve"
  /\ \E svcEnv \in CmdServiceEnvs, tskEnv \in CmdHistoryEnvs :
       LET r == ResolveNetworkConfiguration(svcEnv, tskEnv, Get(selectedTask).taskDefinitionArn)
       IN /\ networkConfiguration' = r.cfg
          /\ tried' = Some([service |-> Defined(r.service.cfg), historyRan |-> r.historyRan,
                            history |-> Defined(r.history.cfg),
                            caught |-> r.service.caught \/ r.history.caught])
          /\ calls' = [calls EXCEPT !.listServices = @ + r.service.listCalls,
                                    !.describeServices = @ + r.service.describeCalls,
                                    !.listTasks = @ + Len(r.history.listCalls),
                                    !.describeHistory = @ + r.history.describeCalls]
          /\ IF AfterResolution(r.cfg) = "launch"
             THEN pc' = "launch" /\ UNCHANGED <<error, stderr, exitCode>>
             ELSE Throw(TaskStartError("No network configuration found", Undefined))
  /\ UNCHANGED <<opts, listVars, pickVars, attempts, lastResponse, result, launchReq,
                 stdout, events, resVars, disVars>>

\* lines 76-103: the RunTask call and what its response means
Launch ==
  /\ pc = "launch"
  /\ launchReq' = Some(RunTaskInput(Get(selectedTask), networkConfiguration))
  /\ calls' = [calls EXCEPT !.runTask = @ + 1]
  /\ events' = Append(events, "launch")
  /\ \E response \in RunTaskResponses :
       /\ lastResponse' = Some(response)
       /\ IF LaunchOutcome(response).ok
          THEN pc' = "poll" /\ UNCHANGED <<error, stderr, exitCode>>
          ELSE Throw(RethrowOrHandle(LaunchOutcome(response).error))
  /\ UNCHANGED <<opts, listVars, pickVars, networkConfiguration, attempts,
                 result, tried, stdout, resVars, disVars>>

\* lines 137-181: one iteration of the polling loop
Poll ==
  /\ pc = "poll"
  /\ attempts < MAX_POLL_ATTEMPTS
  /\ \E response \in DescribeResponses :
       /\ lastResponse' = Some(response)
       /\ IF PollVerdict(response) = "sleep"
          THEN /\ attempts' = attempts + 1
               /\ calls' = [calls EXCEPT !.describeTasks = @ + 1, !.sleeps = @ + 1]
               /\ UNCHANGED <<pc, result, error, stderr, exitCode, stdout>>
          ELSE /\ calls' = [calls EXCEPT !.describeTasks = @ + 1]
               /\ UNCHANGED attempts
               /\ IF PollVerdict(response) = "return"
                  THEN Finish(TaskOf(response))
                  ELSE /\ UNCHANGED <<result, stdout>>
                       /\ Throw(RethrowOrHandle(RethrowOrHandle(PollError(response))))
  /\ UNCHANGED <<opts, listVars, pickVars, networkConfiguration, launchReq, tried, events,
                 resVars, disVars>>

\* lines 183-195: the attempts are used up; one more describe
FinalDescribe ==
  /\ pc = "poll"
  /\ attempts >= MAX_POLL_ATTEMPTS
  /\ \E response \in DescribeResponses :
       /\ lastResponse' = Some(response)
       /\ calls' = [calls EXCEPT !.describeTasks = @ + 1]
       /\ IF FinalVerdict(response) = "return"
          THEN Finish(TaskOf(response))
          ELSE /\ UNCHANGED <<result, stdout>>
               /\ Throw(RethrowOrHandle(FinalError(response)))
  /\ UNCHANGED <<opts, listVars, pickVars, networkConfiguration, attempts, launchReq, tried,
                 events, resVars, disVars>>

Next ==
  \/ Run
  \/ ListFindCluster
  \/ ListDiscoverClusters
  \/ ListDiscoverTasks
  \/ ListOutput
  \/ ResolveCluster
  \/ ResolveTask
  \/ Confirm
  \/ StartRun
  \/ ResolveNetwork
  \/ Launch
  \/ Poll
  \/ FinalDescribe

Spec == Init /\ [][Next]_vars


(***************************************************************************)
(* Properties of the polling phase (waitForTaskStart)                      *)
(***************************************************************************)
\* the command has ended: no step of it is possible any more
Ended == pc = "exited" /\ ~ENABLED Next

\* the last response is that of a describe issued by the loop (describes 1..30), and it
\* returned a task
LoopPollReturnedTask ==
  /\ Defined(lastResponse)
  /\ calls.describeTasks \in 1..MAX_POLL_ATTEMPTS
  /\ HasTask(Get(lastResponse))
PolledTask == TaskOf(Get(lastResponse))

FailedWithStop ==
  /\ Ended
  /\ exitCode = Some(1)
  /\ error = Some(TaskStartError("Task stopped", StopDetail(PolledTask)))
  /\ result = Undefined
  /\ stdout = <<>>
  /\ calls.describeTasks = attempts + 1

\* C1 as claimed: whenever the describe of a poll attempt k in 1..30 carries a stop code or a
\* stop reason, the run has failed at that attempt with a TaskStartError that includes the
\* reason, and no describe follows.
C1_Original ==
  (LoopPollReturnedTask /\ HasStop(PolledTask)) => FailedWithStop

\* C1 as amended: whenever the describe of a poll attempt k in 1..30 carries a stop code or a
\* stop reason and its status is none of RUNNING, STOPPED, DEPROVISIONING, the run has failed
\* at that attempt (describe k is the last call) with the TaskStartError "Task stopped: <the
\* stop reason, else the stop code>", exit status 1 and no result printed.
C1_Amended ==
  (LoopPollReturnedTask /\ HasStop(PolledTask) /\ ~IsStartedStatus(PolledTask.lastStatus))
    => FailedWithStop

\* the spec's example: a stop reason reported on attempt 3 fails the run there
C1_Witness ==
  /\ LoopPollReturnedTask
  /\ calls.describeTasks = 3
  /\ PolledTask = Snapshot(Some("PENDING"), Undefined, Some("CannotPullContainerError"))
  /\ error = Some(TaskStartError("Task stopped", Some("CannotPullContainerError")))
  /\ pc = "exited"

\* C2: never more than 31 describes; after 30 polls that each reported no started status and
\* no stop, exactly one further describe is issued, and the task it returns is the result of
\* the run whatever its status; the run fails with "Task polling timed out" exactly when that
\* final describe returned no task.
C2_Theorem ==
  /\ calls.describeTasks <= MAX_POLL_ATTEMPTS + 1
  /\ attempts <= MAX_POLL_ATTEMPTS
  /\ calls.sleeps = attempts
  /\ (pc = "poll" => calls.describeTasks = attempts)
  /\ (calls.describeTasks = MAX_POLL_ATTEMPTS + 1 =>
        /\ Ended
        /\ attempts = MAX_POLL_ATTEMPTS
        /\ (HasTask(Get(lastResponse)) =>
              /\ result = Some(TaskOf(Get(lastResponse)))
              /\ stdout = <<[kind |-> "result", task |-> TaskOf(Get(lastResponse))]>>
              /\ error = Undefined
              /\ exitCode = Some(0))
        /\ ((~Get(lastResponse).threw /\ ~HasTask(Get(lastResponse))) =>
              /\ error = Some(TaskStartError("Task polling timed out", Undefined))
              /\ exitCode = Some(1)
              /\ result = Undefined))
  /\ ((Defined(error) /\ Get(error).message = "Task polling timed out") =>
        /\ calls.describeTasks = MAX_POLL_ATTEMPTS + 1
        /\ ~HasTask(Get(lastResponse)))

\* after 30 sleeping polls the 31st describe returns a task that is still PENDING, and that
\* task is the result
C2_Witness ==
  /\ pc = "exited"
  /\ calls.describeTasks = MAX_POLL_ATTEMPTS + 1
  /\ result = Some(Snapshot(Some("PENDING"), Undefined, Undefined))
  /\ exitCode = Some(0)

\* C3: whenever the describe of a poll in the loop reports RUNNING, STOPPED or DEPROVISIONING,
\* the run has ended successfully at that poll: the result is that poll's snapshot, every
\* earlier poll slept, and neither a describe nor a sleep follows.
C3_Theorem ==
  (LoopPollReturnedTask /\ IsStartedStatus(PolledTask.lastStatus)) =>
     /\ Ended
     /\ exitCode = Some(0)
     /\ error = Undefined
     /\ result = Some(PolledTask)
     /\ stdout = <<[kind |-> "result", task |-> PolledTask]>>
     /\ calls.describeTasks = attempts + 1
     /\ calls.sleeps = attempts

\* the third poll reports STOPPED (with a stop reason), after two polls that slept
C3_Witness ==
  /\ LoopPollReturnedTask
  /\ calls.describeTasks = 3
  /\ calls.sleeps = 2
  /\ PolledTask = Snapshot(Some("STOPPED"), Some("TaskFailedToStart"), Some("CannotPullContainerError"))
  /\ result = Some(PolledTask)

(***************************************************************************)
(* Properties of the launch (runScheduledTask)                             *)
(***************************************************************************)
\* C4: for a FARGATE task without network configuration, when neither the service strategy
\* nor the task-history strategy yielded a configuration, the run has failed with the
\* TaskStartError "No network configuration found" and no RunTask request was or will be
\* issued.
C4_Theorem ==
  (/\ Defined(selectedTask)
   /\ Get(selectedTask).launchType = Some("FARGATE")
   /\ ~Defined(Get(selectedTask).networkConfiguration)
   /\ Defined(tried)
   /\ ~Get(tried).service
   /\ ~Get(tried).history) =>
     /\ Ended
     /\ exitCode = Some(1)
     /\ error = Some(TaskStartError("No network configuration found", Undefined))
     /\ calls.runTask = 0
     /\ launchReq = Undefined
     /\ \A i \in 1..Len(events) : events[i] # "launch"
     /\ stdout = <<>>

\* both strategies ran (each issued a call) and neither found a configuration
C4_Witness ==
  /\ Defined(tried)
  /\ ~Get(tried).service
  /\ Get(tried).historyRan
  /\ ~Get(tried).history
  /\ calls.describeServices > 0
  /\ calls.describeHistory > 0
  /\ pc = "exited"
  /\ calls.runTask = 0

\* the last response is that of the RunTask call, and it lists failures
LaunchReportedFailures ==
  /\ calls.runTask = 1
  /\ calls.describeTasks = 0
  /\ Defined(lastResponse)
  /\ ~Get(lastResponse).threw
  /\ Defined(Get(lastResponse).failures)
  /\ Len(Get(Get(lastResponse).failures)) > 0
ReportedFailures == Get(Get(lastResponse).failures)

\* C5: at most one RunTask request per run; when its response lists failures, the run has
\* failed with a TaskStartError carrying the (arn, reason) pair of every failure, in order,
\* RunTask is not called again and DescribeTasks is never called.
C5_Theorem ==
  /\ calls.runTask <= 1
  /\ LaunchReportedFailures =>
       /\ Ended
       /\ exitCode = Some(1)
       /\ Get(error).class = "TaskStartError"
       /\ Get(error).message = "Task failed to start"
       /\ Defined(Get(error).failures)
       /\ Len(Get(Get(error).failures)) = Len(ReportedFailures)
       /\ \A i \in 1..Len(ReportedFailures) :
            /\ Get(Get(error).failures)[i].arn = ReportedFailures[i].arn
            /\ Get(Get(error).failures)[i].reason = ReportedFailures[i].reason
       /\ calls.describeTasks = 0
       /\ calls.sleeps = 0

\* a response with two different failures
C5_Witness ==
  /\ LaunchReportedFailures
  /\ Len(ReportedFailures) = 2
  /\ ReportedFailures[1] # ReportedFailures[2]
  /\ pc = "exited"
  /\ Defined(error)

\* C10: the network resolution runs only for a FARGATE task without network configuration;
\* for every other task no ListServices, DescribeServices or ListTasks call is issued and the
\* RunTask request carries the task's own network configuration.
C10_Theorem ==
  /\ Defined(tried) =>
       /\ Get(selectedTask).launchType = Some("FARGATE")
       /\ ~Defined(Get(selectedTask).networkConfiguration)
  /\ (/\ Defined(selectedTask)
      /\ \/ Get(selectedTask).launchType # Some("FARGATE")
         \/ Defined(Get(selectedTask).networkConfiguration)) =>
       /\ calls.listServices = 0
       /\ calls.describeServices = 0
       /\ calls.listTasks = 0
       /\ calls.describeHistory = 0
       /\ tried = Undefined
       /\ pc # "resolve"
       /\ Defined(launchReq) =>
            Get(launchReq).networkConfiguration = Get(selectedTask).networkConfiguration

\* an EC2 task without network configuration is launched without one
C10_Witness ==
  /\ Defined(launchReq)
  /\ Get(selectedTask).launchType = Some("EC2")
  /\ ~Defined(Get(selectedTask).networkConfiguration)
  /\ Get(launchReq).networkConfiguration = Undefined
  /\ calls.runTask = 1

(***************************************************************************)
(* Properties of the command (run, handleListMode, handleExecuteMode)      *)
(***************************************************************************)
\* C6: with --list, whatever --cluster and --rule are and whatever the discoveries answer, no
\* RunTask request is issued and no selection or confirmation is shown.
C6_Theorem ==
  opts.list =>
    /\ calls.runTask = 0
    /\ launchReq = Undefined
    /\ events = <<>>
    /\ pc \in {"main", "list", "discover", "exited"}

\* --list together with --cluster and --rule: the listing is printed, the command ends
C6_Witness ==
  /\ opts.list
  /\ Defined(opts.cluster)
  /\ Defined(opts.rule)
  /\ pc = "exited"
  /\ exitCode = Some(0)
  /\ Len(stdout) = 1
  /\ stdout[1].kind = "list"

IsPrefix(s, t) == Len(s) <= Len(t) /\ SubSeq(t, 1, Len(s)) = s
IsStep(e) == e \notin {"promptCluster", "promptTask"}
\* the events without the prompts that a selection among several items shows
Steps == SelectSeq(events, IsStep)
Count(e) == Cardinality({i \in 1..Len(events) : events[i] = e})

\* C7: in execute mode without --cluster and --rule, the events are, in this order: one
\* cluster selection, one task selection, one confirmation, and (only after the answer yes)
\* one RunTask request; after the answer no the command has ended without a RunTask request.
C7_Theorem ==
  (~opts.list /\ ~Defined(opts.cluster) /\ ~Defined(opts.rule)) =>
     /\ \/ IsPrefix(Steps, <<"selectCluster", "selectTask", "confirmYes", "launch">>)
        \/ Steps = <<"selectCluster", "selectTask", "confirmNo">>
     /\ calls.runTask = Count("launch")
     /\ Count("promptCluster") <= 1
     /\ Count("promptTask") <= 1
     /\ Count("confirmNo") > 0 => (Ended /\ calls.runTask = 0 /\ launchReq = Undefined)
     /\ pc \in {"confirm", "runner", "resolve", "launch", "poll"} =>
          (Count("selectCluster") = 1 /\ Count("selectTask") = 1)

\* two clusters and two tasks to choose from, the confirmation answered yes, the launch
C7_Witness ==
  /\ ~opts.list /\ ~Defined(opts.cluster) /\ ~Defined(opts.rule)
  /\ events = <<"selectCluster", "promptCluster", "selectTask", "promptTask", "confirmYes",
                "launch">>
  /\ calls.runTask = 1

NoInteraction == \A i \in 1..Len(events) : events[i] = "launch"
DirectLookup ==
  /\ Defined(selectedCluster) => ClusterMatches(Get(selectedCluster), Get(opts.cluster))
  /\ Defined(selectedTask) =>
       /\ Get(selectedTask).ruleName = Get(opts.rule)
       /\ Get(selectedTask).clusterArn = Get(selectedCluster).clusterArn
  /\ Defined(launchReq) => Get(launchReq).cluster = Get(selectedCluster).clusterArn

\* C8 as claimed: in execute mode with both --cluster and --rule supplied, no selection and
\* no confirmation occurs on any path; cluster and task are looked up directly.
C8_Original ==
  (~opts.list /\ Defined(opts.cluster) /\ Defined(opts.rule)) =>
     (NoInteraction /\ DirectLookup)

\* C8 as amended: in execute mode with both --cluster and --rule supplied as non-empty
\* strings, no selection and no confirmation occurs on any path; cluster and task are
\* looked up directly and the launch is issued without confirmation.
C8_Amended ==
  (~opts.list /\ TruthyChars(opts.cluster) /\ Truthy(opts.rule)) =>
     (NoInteraction /\ DirectLookup)

\* both given and found: the launch is the only event
C8_Witness ==
  /\ ~opts.list
  /\ opts.cluster = Some(<<"a">>)
  /\ opts.rule = Some("nightly")
  /\ events = <<"launch">>
  /\ Get(selectedCluster) = ClusterA
  /\ calls.runTask = 1


(***************************************************************************)
(* The network-configuration resolver on its own: the inputs are drawn in  *)
(* the initial state, and one step applies lines 35-69 of runScheduledTask *)
(* to them                                                                 *)
(***************************************************************************)
\* services worth telling apart: same family with subnets, same family with a configuration
\* that has no subnets, another family with subnets
SiblingWithSubnets == Service(Some(TdJobNext), Some(CfgSvc1))
SiblingWithoutSubnets == Service(Some(TdJob), Some(CfgNoSubnets))
StrangerWithSubnets == Service(Some(TdWeb), Some(CfgSvc2))
MarkedServices == {SiblingWithSubnets, SiblingWithoutSubnets, StrangerWithSubnets}

\* a listing of n services that is filler except at the positions of marks
Listing(n, marks) == [i \in 1..n |-> IF i \in DOMAIN marks THEN marks[i] ELSE Filler]

\* the ways to mark no more than MaxMarked of n positions
Markings(n) ==
  UNION {[M -> MarkedServices] : M \in {X \in SUBSET (1..n) : Cardinality(X) <= MaxMarked}}

\* ListServices pages of at most size services each (at least one page)
RECURSIVE Paginate(_, _)
Paginate(listing, size) ==
  IF Len(listing) <= size THEN <<listing>>
  ELSE <<SubSeq(listing, 1, size)>> \o Paginate(SubSeq(listing, size + 1, Len(listing)), size)

NoHistory == HistoryEnv(HistoryAnswer(<<>>, FALSE, FALSE), HistoryAnswer(<<>>, FALSE, FALSE))
RunningHistory == HistoryEnv(HistoryAnswer(<<HistJob>>, FALSE, FALSE), HistoryAnswer(<<>>, FALSE, FALSE))
StoppedHistory == HistoryEnv(HistoryAnswer(<<>>, FALSE, FALSE), HistoryAnswer(<<HistWeb>>, FALSE, FALSE))

\* the answers without a fault, in one page or in several; and the answers where the first
\* ListServices call, or the first or second DescribeServices call, throws
ResolverEnvs(listing) ==
  {[svc |-> ServiceEnv(pages, 0, 0), tsk |-> h] :
      pages \in {<<listing>>, Paginate(listing, ListPageSize)},
      h \in {NoHistory, RunningHistory, StoppedHistory}}
  \cup {[svc |-> ServiceEnv(<<listing>>, f[1], f[2]), tsk |-> RunningHistory] :
          f \in {<<1, 0>>, <<0, 1>>, <<0, 2>>}}

ResolverTask ==
  ScheduledTask("nightly", ClusterA.clusterArn, TdJob, Undefined, Some("FARGATE"), "eventbridge-rules")

IdleCommand ==
  /\ opts = [list |-> FALSE, cluster |-> Undefined, rule |-> Undefined]
  /\ pc = "off"
  /\ listFilter = Undefined
  /\ listClusters = Undefined
  /\ listTasks = Undefined
  /\ selectedCluster = Undefined
  /\ selectedTask = Undefined
  /\ networkConfiguration = Undefined
  /\ attempts = 0
  /\ lastResponse = Undefined
  /\ result = Undefined
  /\ error = Undefined
  /\ exitCode = Undefined
  /\ stdout = <<>>
  /\ stderr = <<>>
  /\ events = <<>>
  /\ calls = NoCalls
  /\ launchReq = Undefined
  /\ tried = Undefined

InitResolve ==
  /\ IdleCommand
  /\ rpc = "start"
  /\ rTask = Some(ResolverTask)
  /\ \E n \in 0..MaxListing : \E marks \in Markings(n) : \E env \in ResolverEnvs(Listing(n, marks)) :
       rSvcEnv = Some(env.svc) /\ rTskEnv = Some(env.tsk)
  /\ rOut = Undefined
  /\ IdleDiscovery

Resolve ==
  /\ rpc = "start"
  /\ NeedsResolution(Get(rTask))
  /\ rOut' = Some(ResolveNetworkConfiguration(Get(rSvcEnv), Get(rTskEnv),
                                              Get(rTask).taskDefinitionArn))
  /\ rpc' = "done"
  /\ UNCHANGED <<cliVars, rTask, rSvcEnv, rTskEnv, disVars>>

NextResolve == Resolve

SpecResolve == InitResolve /\ [][NextResolve]_vars


(***************************************************************************)
(* Property of the resolver                                                *)
(***************************************************************************)
ListedServices == Flatten(Get(rSvcEnv).pages)
\* a service of the target's family whose network configuration has subnets
IsUsableSibling(service) ==
  /\ Defined(service.taskDefinition)
  /\ GetTaskDefinitionFamily(Get(service.taskDefinition))
       = GetTaskDefinitionFamily(Get(rTask).taskDefinitionArn)
  /\ SubnetCount(service.networkConfiguration) > 0
NoCallThrows ==
  /\ Get(rSvcEnv).listFaultAt = 0
  /\ Get(rSvcEnv).describeFaultAt = 0
  /\ \A s \in 1..Len(DesiredStatuses) :
       /\ ~Get(rTskEnv)[DesiredStatuses[s]].listThrows
       /\ ~Get(rTskEnv)[DesiredStatuses[s]].describeThrows

\* C9: when the cluster lists a service of the target's family whose network configuration
\* has a non-empty subnet list, the resolved configuration is that of such a service,
\* wherever the services stand in the listing and whatever the task history holds (stated
\* here for the runs in which no AWS call throws).
C9_Claim ==
  (/\ rpc = "done"
   /\ NoCallThrows
   /\ \E i \in 1..Len(ListedServices) : IsUsableSibling(ListedServices[i])) =>
     \E i \in 1..Len(ListedServices) :
        /\ IsUsableSibling(ListedServices[i])
        /\ Get(rOut).cfg = ListedServices[i].networkConfiguration

IsServiceCall(c) == c \in {"ListServices", "DescribeServices"}
IsHistoryCall(c) == c \in {"ListTasks", "DescribeTasks"}
ResolverLog == Get(rOut).log

\* C11: the strategies run in a fixed order and the first success ends the resolution: no
\* call of the task-history strategy precedes a call of the service strategy, the
\* task-history strategy runs only when the service strategy returned no configuration, and
\* when the service strategy returned one no ListTasks (or DescribeTasks) call is made and
\* its configuration is the result.
C11_Theorem ==
  rpc = "done" =>
    /\ \A i, j \in 1..Len(ResolverLog) :
         (IsHistoryCall(ResolverLog[i]) /\ IsServiceCall(ResolverLog[j])) => j < i
    /\ Len(ResolverLog) > 0 => ResolverLog[1] = "ListServices"
    /\ (\E i \in 1..Len(ResolverLog) : IsHistoryCall(ResolverLog[i]))
         <=> ~Defined(Get(rOut).service.cfg)
    /\ Defined(Get(rOut).service.cfg) =>
         /\ Get(rOut).cfg = Get(rOut).service.cfg
         /\ Get(rOut).history.listCalls = <<>>
         /\ Get(rOut).history.describeCalls = 0

\* a sibling in the second batch: the service strategy lists, describes twice and succeeds,
\* although the task history holds a task that would give a configuration
C11_Witness ==
  /\ rpc = "done"
  /\ ResolverLog = <<"ListServices", "DescribeServices", "DescribeServices">>
  /\ Get(rOut).cfg = Some(CfgSvc1)
  /\ Get(rTskEnv) = RunningHistory

(***************************************************************************)
(* discovery.ts: discoverClusters call by call. The ARNs of this study are *)
(* the numbers 1..n, in listing order                                      *)
(***************************************************************************)
ClusterBatch == 100
MaxArns == 201          \* cluster ARNs in one listing
ListPage == 70          \* ARNs on one page of ListClusters

\* clusterArns.slice(i, i + 100)
BatchWithoutLast(arns, i) == SubSeq(arns, i + 1, Min(i + ClusterBatch - 1, Len(arns)))
Batch(arns, i) == SubSeq(arns, i + 1, Min(i + ClusterBatch, Len(arns)))

\* the pages of ListClusters (clusterArns may be missing on a page): all ARNs on one page,
\* or pages of ListPage ARNs, or those after a page without clusterArns
ClusterPages(n) ==
  LET paged == [k \in 1..Len(Paginate([i \in 1..n |-> i], ListPage)) |->
                   Some(Paginate([i \in 1..n |-> i], ListPage)[k])]
  IN {<<Some([i \in 1..n |-> i])>>, paged, <<Undefined>> \o paged}

\* clusters.push({ clusterArn: cluster.clusterArn, ... })
ClusterInfo(arn) == [clusterArn |-> arn]
\* DescribeClusters answers a batch without clusters, with every cluster of the batch, or
\* with all but the first (a cluster that is gone is reported under failures)
DescribeClustersAnswers(batch) ==
  {Undefined, Some([k \in 1..Len(batch) |-> ClusterInfo(batch[k])]),
   Some([k \in 1..(Len(batch) - 1) |-> ClusterInfo(batch[k + 1])])}

InitClusters ==
  /\ IdleCommand
  /\ IdleResolver
  /\ dpc = "list"
  /\ \E n \in 0..MaxArns : \E pages \in ClusterPages(n) : dIn = [pages |-> pages]
  /\ dAcc = [clusterArns |-> <<>>, page |-> 1, i |-> 0, batches |-> <<>>,
             responses |-> <<>>, clusters |-> <<>>]
  /\ dOut = Undefined

\* lines 178-223: catch (error) { handleAWSError(error, profile) }
ClustersCallThrows ==
  /\ dpc \in {"list", "describe"}
  /\ \E f \in Faults : dOut' = Fault(HandleAWSError(f))
  /\ dpc' = "threw"
  /\ UNCHANGED <<cliVars, resVars, dIn, dAcc>>

\* lines 183-195: one ListClusters call of the do-while, and the empty listing
ListClustersPage ==
  /\ dpc = "list"
  /\ LET page == dIn.pages[dAcc.page]
         arns == IF Defined(page) THEN dAcc.clusterArns \o Get(page) ELSE dAcc.clusterArns
         more == dAcc.page < Len(dIn.pages)
     IN /\ dAcc' = [dAcc EXCEPT !.clusterArns = arns, !.page = @ + 1]
        /\ dpc' = IF more THEN "list" ELSE IF Len(arns) = 0 THEN "returned" ELSE "describe"
        /\ dOut' = IF ~more /\ Len(arns) = 0 THEN Answer(<<>>) ELSE dOut
  /\ UNCHANGED <<cliVars, resVars, dIn>>

\* lines 199-220: one DescribeClusters call of the for loop, and the return after the last
DescribeClustersBatch ==
  /\ dpc = "describe"
  /\ LET batch == Batch(dAcc.clusterArns, dAcc.i)
     IN \E response \in DescribeClustersAnswers(batch) :
          LET clusters == IF Defined(response) THEN dAcc.clusters \o Get(response)
                          ELSE dAcc.clusters
              last == dAcc.i + ClusterBatch >= Len(dAcc.clusterArns)
          IN /\ dAcc' = [dAcc EXCEPT !.i = @ + ClusterBatch,
                                     !.batches = Append(@, batch),
                                     !.responses = Append(@, response),
                                     !.clusters = clusters]
             /\ dpc' = IF last THEN "returned" ELSE "describe"
             /\ dOut' = IF last THEN Answer(clusters) ELSE dOut
  /\ UNCHANGED <<cliVars, resVars, dIn>>

NextClusters == ClustersCallThrows \/ ListClustersPage \/ DescribeClustersBatch

SpecClusters == InitClusters /\ [][NextClusters]_vars

\* the listing: the ARNs of the pages, in page order
RECURSIVE FlattenDefined(_)
FlattenDefined(pages) ==
  IF pages = <<>> THEN <<>>
  ELSE (IF Defined(Head(pages)) THEN Get(Head(pages)) ELSE <<>>) \o FlattenDefined(Tail(pages))
ListedArns == FlattenDefined(dIn.pages)

\* C13: the describe batches of discoverClusters partition the listing: each has between 1
\* and 100 ARNs, and taken in order they are the listing (batch b holds exactly the listed
\* ARNs 100(b-1)+1 .. 100b, so each listed ARN is in exactly one batch), whatever the number
\* of pages; the result is the concatenation of the describe responses in that order.
C13_Theorem ==
  (dpc \in {"list", "describe", "returned"}) =>
     /\ \A b \in 1..Len(dAcc.batches) :
          Len(dAcc.batches[b]) >= 1 /\ Len(dAcc.batches[b]) <= 100
     /\ Flatten(dAcc.batches) = SubSeq(ListedArns, 1, Min(dAcc.i, Len(ListedArns)))
     /\ dpc = "returned" =>
          /\ Flatten(dAcc.batches) = ListedArns
          /\ \A b \in 1..Len(dAcc.batches) :
               dAcc.batches[b] = SubSeq(ListedArns, 100 * (b - 1) + 1, Min(100 * b, Len(ListedArns)))
          /\ Len(dAcc.batches) * 100 >= Len(ListedArns)
          /\ dOut = Answer(FlattenDefined(dAcc.responses))

\* 201 ARNs listed over several pages are described in batches of 100, 100 and 1, the
\* second of which answers without one of its clusters
C13_Witness ==
  /\ dpc = "returned"
  /\ Len(dIn.pages) > 2
  /\ Len(ListedArns) = 201
  /\ Len(dAcc.batches) = 3
  /\ Len(dAcc.batches[3]) = 1
  /\ Len(dOut.value) = 200

(***************************************************************************)
(* discovery.ts: findClusterByName on its own                              *)
(***************************************************************************)
\* a third cluster, whose name ends with the name of another
ClusterBA == [clusterName |-> <<"b", "a">>, clusterArn |-> <<"c", "/", "b", "a">>]
LookupClusters == Clusters \cup {ClusterBA}
\* names and ARNs of clusters that may exist, and of one that does not
LookupIdentifiers ==
  {c.clusterName : c \in LookupClusters} \cup {c.clusterArn : c \in LookupClusters}
  \cup {<<"z">>, <<"c", "/", "z">>}

InitFindCluster ==
  /\ IdleCommand
  /\ IdleResolver
  /\ dpc = "find"
  /\ \E id \in LookupIdentifiers :
       \E answer \in {Answer(cs) : cs \in {l \in SeqsUpTo(LookupClusters, MaxClusters) :
                                             \A i, j \in 1..Len(l) : i # j => l[i] # l[j]}}
                     \cup {Fault(HandleAWSError(f)) : f \in Faults} :
          dIn = [clusters |-> answer, id |-> id]
  /\ dAcc = Undefined
  /\ dOut = Undefined

\* findClusterByName, lines 454-473 (a throw of discoverClusters propagates)
FindClusterByName ==
  /\ dpc = "find"
  /\ dOut' = IF ~dIn.clusters.ok THEN dIn.clusters
             ELSE IF Defined(FindCluster(dIn.clusters.value, dIn.id))
             THEN Answer(Get(FindCluster(dIn.clusters.value, dIn.id)))
             ELSE Fault(ClusterNotFoundError(dIn.id))
  /\ dpc' = "found"
  /\ UNCHANGED <<cliVars, resVars, dIn, dAcc>>

NextFindCluster == FindClusterByName

SpecFindCluster == InitFindCluster /\ [][NextFindCluster]_vars

\* the part of an ARN after its last "/"
TrailingSegment(arn) ==
  LET slashes == {i \in 1..Len(arn) : arn[i] = "/"}
      last == CHOOSE i \in slashes : \A j \in slashes : j <= i
  IN IF slashes = {} THEN arn ELSE SubSeq(arn, last + 1, Len(arn))
IsFormOf(id, c) ==
  id = c.clusterName \/ id = c.clusterArn \/ id = TrailingSegment(c.clusterArn)

\* C14: for every discovered listing and every cluster c of it, findClusterByName returns c
\* itself when given c's name, c's full ARN or the trailing path segment of c's ARN; when
\* the identifier is none of the three forms of any listed cluster it throws
\* ClusterNotFoundError with that identifier.
C14_Theorem ==
  (dpc = "found" /\ dIn.clusters.ok) =>
     /\ \A k \in 1..Len(dIn.clusters.value) :
          IsFormOf(dIn.id, dIn.clusters.value[k]) => dOut = Answer(dIn.clusters.value[k])
     /\ (\A k \in 1..Len(dIn.clusters.value) : ~IsFormOf(dIn.id, dIn.clusters.value[k]))
          => dOut = Fault(ClusterNotFoundError(dIn.id))

\* the second cluster of the listing, found by its full ARN
C14_Witness ==
  /\ dpc = "found"
  /\ dIn.clusters = Answer(<<ClusterBA, ClusterA>>)
  /\ dIn.id = ClusterA.clusterArn
  /\ dOut = Answer(ClusterA)

(***************************************************************************)
(* discovery.ts: the two sources of scheduled tasks, from what the         *)
(* EventBridge and Scheduler APIs answer                                   *)
(***************************************************************************)
MaxRules == 2           \* rules in one listing
MaxSchedules == 2       \* schedules in one listing

\* NetworkConfiguration as the APIs deliver it: the field names occur in upper and in lower
\* case, each present or not
RawAwsvpc(Subnets, SecurityGroups, AssignPublicIp, subnets, securityGroups, assignPublicIp) ==
  [Subnets |-> Subnets, SecurityGroups |-> SecurityGroups, AssignPublicIp |-> AssignPublicIp,
   subnets |-> subnets, securityGroups |-> securityGroups, assignPublicIp |-> assignPublicIp]
RawNetCfg(AwsvpcConfiguration, awsvpcConfiguration) ==
  [AwsvpcConfiguration |-> AwsvpcConfiguration, awsvpcConfiguration |-> awsvpcConfiguration]
\* the configuration a written with upper-case names, with lower-case names, and as the
\* EventBridge API returns it (awsvpcConfiguration with Subnets)
UpperCase(a) ==
  RawNetCfg(Some(RawAwsvpc(a.subnets, a.securityGroups, a.assignPublicIp,
                           Undefined, Undefined, Undefined)), Undefined)
LowerCase(a) ==
  RawNetCfg(Undefined, Some(RawAwsvpc(Undefined, Undefined, Undefined,
                                      a.subnets, a.securityGroups, a.assignPublicIp)))
ApiCase(a) ==
  RawNetCfg(Undefined, Some(RawAwsvpc(a.subnets, a.securityGroups, a.assignPublicIp,
                                      Undefined, Undefined, Undefined)))

\* x || y for objects and arrays (any that is present is truthy) and for strings
OrElse(x, y) == IF Defined(x) THEN x ELSE y
OrElseString(x, y) == IF Truthy(x) THEN x ELSE y

\* convertNetworkConfiguration, lines 401-424
ConvertNetworkConfiguration(ebConfig) ==
  IF ~Defined(ebConfig) THEN Undefined
  ELSE LET awsvpc == OrElse(Get(ebConfig).awsvpcConfiguration, Get(ebConfig).AwsvpcConfiguration)
       IN IF ~Defined(awsvpc) THEN Undefined
          ELSE LET subnets == OrElse(Get(awsvpc).Subnets, Get(awsvpc).subnets)
                   securityGroups == OrElse(Get(awsvpc).SecurityGroups, Get(awsvpc).securityGroups)
                   assignPublicIp == OrElseString(Get(awsvpc).AssignPublicIp,
                                                  Get(awsvpc).assignPublicIp)
               IN IF ~Defined(subnets) \/ Len(Get(subnets)) = 0 THEN Undefined
                  ELSE Some(NetCfg(Some(Awsvpc(subnets, securityGroups, assignPublicIp))))

\* discoverFromEventBridgeScheduler, lines 360-371: only the upper-case names are read
SchedulerNetworkConfiguration(config) ==
  IF Defined(config) /\ Defined(Get(config).AwsvpcConfiguration)
  THEN LET awsvpc == Get(Get(config).AwsvpcConfiguration)
       IN Some(NetCfg(Some(Awsvpc(awsvpc.Subnets, awsvpc.SecurityGroups, awsvpc.AssignPublicIp))))
  ELSE Undefined

\* A target of a rule or of a schedule, a rule with the answer of ListTargetsByRule, a
\* schedule with the answer of GetSchedule, and a listing with whether the list call throws
EcsParameters(td, cfg, launchType) ==
  [TaskDefinitionArn |-> td, NetworkConfiguration |-> cfg, LaunchType |-> launchType]
Target(arn, ecs) == [Arn |-> arn, EcsParameters |-> ecs]
Rule(name, threw, targets) == [Name |-> name, threw |-> threw, Targets |-> targets]
Schedule(name, threw, target) == [Name |-> name, threw |-> threw, Target |-> target]
SourceEnv(listThrows, items) == [listThrows |-> listThrows, items |-> items]

\* parseEcsTarget, lines 426-452
ParseEcsTargetAnyTarget(rule, target) ==
  IF ~TruthyChars(target.Arn) THEN Undefined
  ELSE Some(ScheduledTask(Get(rule.Name), Get(target.Arn), TdWeb, Undefined, Undefined,
                          "eventbridge-rules"))
ParseEcsTarget(rule, target) ==
  IF ~Defined(target.EcsParameters) THEN Undefined
  ELSE IF ~TruthyChars(target.Arn) THEN Undefined
  ELSE Some(ScheduledTask(Get(rule.Name), Get(target.Arn),
                          Get(target.EcsParameters).TaskDefinitionArn,
                          ConvertNetworkConfiguration(Get(target.EcsParameters).NetworkConfiguration),
                          Get(target.EcsParameters).LaunchType, "eventbridge-rules"))

\* the elements of a sequence of optional values that are present
Present(s) == LET kept == SelectSeq(s, Defined) IN [k \in 1..Len(kept) |-> Get(kept[k])]

\* discoverFromEventBridgeRules, lines 268-312, before its cluster filter: a throw of
\* ListRules or of a ListTargetsByRule call ends it
ParsedFromRules(env) ==
  LET rules == env.items
      ofRule(rule) ==
        IF ~Truthy(rule.Name) \/ ~Defined(rule.Targets) THEN <<>>
        ELSE Present([j \in 1..Len(Get(rule.Targets)) |->
                        ParseEcsTarget(rule, Get(rule.Targets)[j])])
  IN IF env.listThrows \/ \E i \in 1..Len(rules) : Truthy(rules[i].Name) /\ rules[i].threw
     THEN Fault(MkError("ThrottlingException", "aws fault", Undefined, Undefined))
     ELSE Answer(Flatten([i \in 1..Len(rules) |-> ofRule(rules[i])]))

\* target.Arn?.includes(":cluster/") ("c" stands for the ARN up to "...:cluster")
IncludesCluster(arn) ==
  Defined(arn) /\ \E i \in 1..(Len(Get(arn)) - 1) : Get(arn)[i] = "c" /\ Get(arn)[i + 1] = "/"

\* discoverFromEventBridgeScheduler, lines 344-390: one schedule (a throw of GetSchedule is
\* caught and skips the schedule)
ParseSchedule(schedule) ==
  IF ~Truthy(schedule.Name) \/ schedule.threw THEN Undefined
  ELSE IF ~Defined(schedule.Target) \/ ~Defined(Get(schedule.Target).EcsParameters) THEN Undefined
  ELSE IF ~IncludesCluster(Get(schedule.Target).Arn) THEN Undefined
  ELSE LET target == Get(schedule.Target)
       IN Some(ScheduledTask(Get(schedule.Name), Get(target.Arn),
                             Get(target.EcsParameters).TaskDefinitionArn,
                             SchedulerNetworkConfiguration(Get(target.EcsParameters).NetworkConfiguration),
                             Get(target.EcsParameters).LaunchType, "eventbridge-scheduler"))

\* discoverFromEventBridgeScheduler, lines 314-394, before its cluster filter
ParsedFromSchedulerFailingWhole(env) ==
  IF env.listThrows \/ \E i \in 1..Len(env.items) :
                         Truthy(env.items[i].Name) /\ env.items[i].threw
  THEN Fault(MkError("ThrottlingException", "aws fault", Undefined, Undefined))
  ELSE Answer(Present([i \in 1..Len(env.items) |-> ParseSchedule(env.items[i])]))
ParsedFromScheduler(env) ==
  IF env.listThrows
  THEN Fault(MkError("ThrottlingException", "aws fault", Undefined, Undefined))
  ELSE Answer(Present([i \in 1..Len(env.items) |-> ParseSchedule(env.items[i])]))

\* discoverScheduledTasks, lines 233-263: both sources are called inside try/catch
SourceFailureIsCaughtNever == FALSE
SourceFailureIsCaught == TRUE
\* the targets, rules and schedules of the study; every configuration on cluster A is the
\* same logical configuration (that of CfgOwn), written in one of the three casings
OwnAwsvpc == Get(CfgOwn.awsvpcConfiguration)
TgtUpperA == Target(Some(ClusterA.clusterArn),
                    Some(EcsParameters(TdJob, Some(UpperCase(OwnAwsvpc)), Some("FARGATE"))))
TgtLowerA == Target(Some(ClusterA.clusterArn),
                    Some(EcsParameters(TdJob, Some(LowerCase(OwnAwsvpc)), Some("FARGATE"))))
TgtApiA == Target(Some(ClusterA.clusterArn),
                  Some(EcsParameters(TdJobNext, Some(ApiCase(OwnAwsvpc)), Some("FARGATE"))))
TgtB == Target(Some(ClusterB.clusterArn), Some(EcsParameters(TdWeb, Undefined, Some("EC2"))))
TgtLambda == Target(Some(<<"f", "/", "x">>), Undefined)
TgtNoArn == Target(Undefined, Some(EcsParameters(TdJob, Undefined, Some("FARGATE"))))
TgtEcsElsewhere == Target(Some(<<"q", "/", "x">>),
                          Some(EcsParameters(TdJob, Undefined, Some("FARGATE"))))
RuleSet ==
  {Rule(Some("nightly"), FALSE, Some(<<TgtUpperA>>)),
   Rule(Some("weekly"), FALSE, Some(<<TgtLambda, TgtLowerA, TgtNoArn, TgtB>>)),
   Rule(Some("hourly"), FALSE, Some(<<TgtApiA, TgtUpperA>>)),
   Rule(Some("daily"), TRUE, Undefined),
   Rule(Undefined, FALSE, Some(<<TgtUpperA>>)),
   Rule(Some("monthly"), FALSE, Undefined)}
ScheduleSet ==
  {Schedule(Some("nightly"), FALSE, Some(TgtUpperA)),
   Schedule(Some("lowcase"), FALSE, Some(TgtLowerA)),
   Schedule(Some("broken"), TRUE, Undefined),
   Schedule(Some("other"), FALSE, Some(TgtB)),
   Schedule(Some("queue"), FALSE, Some(TgtEcsElsewhere)),
   Schedule(Some("function"), FALSE, Some(TgtLambda)),
   Schedule(Undefined, FALSE, Some(TgtUpperA))}
\* listings of three schedules, the second of which is the one whose GetSchedule throws
AroundFailure ==
  {<<a, b, c>> : a \in ScheduleSet, b \in {x \in ScheduleSet : x.threw}, c \in ScheduleSet}
  \ {l \in ScheduleSet \X ScheduleSet \X ScheduleSet : l[1] = l[2] \/ l[2] = l[3] \/ l[1] = l[3]}
\* a listing holds an item once
Listed(S, n) == {l \in SeqsUpTo(S, n) : \A i, j \in 1..Len(l) : i # j => l[i] # l[j]}

InitSources ==
  /\ IdleCommand
  /\ IdleResolver
  /\ dpc = "discover"
  /\ \E rules \in {SourceEnv(FALSE, l) : l \in Listed(RuleSet, MaxRules)}
                  \cup {SourceEnv(TRUE, <<>>)},
        schedules \in {SourceEnv(FALSE, l) : l \in Listed(ScheduleSet, MaxSchedules)
                                                     \cup AroundFailure}
                      \cup {SourceEnv(TRUE, <<>>)},
        clusterArn \in {Undefined, Some(ClusterA.clusterArn)} :
       dIn = [rules |-> rules, schedules |-> schedules, clusterArn |-> clusterArn]
  /\ dAcc = Undefined
  /\ dOut = Undefined

\* discoverScheduledTasks, lines 225-266: what each source returned (or that it threw), and
\* the tasks returned
DiscoverStep ==
  /\ dpc = "discover"
  /\ LET rules == ParsedFromRules(dIn.rules)
         scheduler == ParsedFromScheduler(dIn.schedules)
         returned(a) == IF a.ok THEN Answer(FilterByCluster(a.value, dIn.clusterArn)) ELSE a
     IN /\ dAcc' = [rules |-> returned(rules), scheduler |-> returned(scheduler)]
        /\ IF SourceFailureIsCaught \/ (rules.ok /\ scheduler.ok)
           THEN /\ dOut' = Answer(DiscoverScheduledTasks(rules, scheduler, dIn.clusterArn))
                /\ dpc' = "discovered"
           ELSE /\ dOut' = IF rules.ok THEN scheduler ELSE rules
                /\ dpc' = "threw"
  /\ UNCHANGED <<cliVars, resVars, dIn>>

\* findScheduledTaskByRule, lines 475-484, on the tasks discovered
FindStep ==
  /\ dpc = "discovered"
  /\ \E ruleName \in {"nightly", "hourly", "yearly"} :
       dOut' = [ok |-> TRUE, fault |-> PlainError(""), value |-> dOut.value,
                ruleName |-> ruleName,
                found |-> FindScheduledTaskByRule(dOut.value, ruleName)]
  /\ dpc' = "found"
  /\ UNCHANGED <<cliVars, resVars, dIn, dAcc>>

NextSources == DiscoverStep \/ FindStep

SpecSources == InitSources /\ [][NextSources]_vars

(***************************************************************************)
(* Properties of the scheduled-task discovery                              *)
(***************************************************************************)
Discovered == dpc \in {"discovered", "found"}
Tasks == dOut.value
FromSource(source) == SelectSeq(Tasks, LAMBDA t : t.source = source)
ValueOrEmpty(a) == IF a.ok THEN a.value ELSE <<>>
PassesFilter(arn) == ~Defined(dIn.clusterArn) \/ arn = dIn.clusterArn

\* the (rule, target) positions whose target carries ECS parameters and a cluster ARN that
\* passes the filter, and the positions of the schedules that do and whose detail was fetched
QualifyingTargets ==
  UNION {{<<i, j>> : j \in {j \in 1..Len(Get(dIn.rules.items[i].Targets)) :
                              LET target == Get(dIn.rules.items[i].Targets)[j]
                              IN /\ Defined(target.EcsParameters)
                                 /\ Defined(target.Arn)
                                 /\ PassesFilter(target.Arn)}} :
            i \in {i \in 1..Len(dIn.rules.items) :
                     /\ Defined(dIn.rules.items[i].Name)
                     /\ Defined(dIn.rules.items[i].Targets)}}
QualifyingSchedules ==
  {i \in 1..Len(dIn.schedules.items) :
     LET schedule == dIn.schedules.items[i]
     IN /\ Defined(schedule.Name)
        /\ ~schedule.threw
        /\ Defined(schedule.Target)
        /\ Defined(Get(schedule.Target).EcsParameters)
        /\ Get(schedule.Target).Arn \in {Some(c.clusterArn) : c \in Clusters}
        /\ PassesFilter(Get(schedule.Target).Arn)}
\* the entry that a qualifying target, or schedule, gives
IsEntryOfTarget(t, p) ==
  LET rule == dIn.rules.items[p[1]]
      target == Get(rule.Targets)[p[2]]
  IN /\ t.source = "eventbridge-rules"
     /\ t.ruleName = Get(rule.Name)
     /\ t.clusterArn = Get(target.Arn)
     /\ t.taskDefinitionArn = Get(target.EcsParameters).TaskDefinitionArn
IsEntryOfSchedule(t, i) ==
  LET schedule == dIn.schedules.items[i]
  IN /\ t.source = "eventbridge-scheduler"
     /\ t.ruleName = Get(schedule.Name)
     /\ t.clusterArn = Get(Get(schedule.Target).Arn)
     /\ t.taskDefinitionArn = Get(Get(schedule.Target).EcsParameters).TaskDefinitionArn

\* C12: discoverScheduledTasks never throws; whichever of the two sources fail, it returns
\* what the rule-based source returned (nothing if it threw) followed by what the
\* scheduler-based source returned (nothing if it threw).
C12_Theorem ==
  /\ dpc # "threw"
  /\ Discovered =>
       /\ dOut.ok
       /\ Tasks = ValueOrEmpty(dAcc.rules) \o ValueOrEmpty(dAcc.scheduler)
       /\ ~dAcc.rules.ok => FromSource("eventbridge-rules") = <<>>
       /\ ~dAcc.scheduler.ok => FromSource("eventbridge-scheduler") = <<>>

\* the rule-based source throws at its second rule, after a first rule with an ECS target;
\* the result is what the scheduler-based source found
C12_Witness ==
  /\ dpc = "discovered"
  /\ Len(dIn.rules.items) = 2
  /\ dIn.rules.items[1] = Rule(Some("nightly"), FALSE, Some(<<TgtUpperA>>))
  /\ ~dAcc.rules.ok
  /\ dAcc.scheduler.ok
  /\ Len(Tasks) = 2
  /\ FromSource("eventbridge-scheduler") = Tasks

\* NetworkConfiguration of the target an entry t comes from, when the target is raw
ComesFrom(t, raw) ==
  \/ \E p \in QualifyingTargets :
        /\ IsEntryOfTarget(t, p)
        /\ Get(Get(dIn.rules.items[p[1]].Targets)[p[2]].EcsParameters).NetworkConfiguration = raw
  \/ \E i \in QualifyingSchedules :
        /\ IsEntryOfSchedule(t, i)
        /\ Get(Get(dIn.schedules.items[i].Target).EcsParameters).NetworkConfiguration = raw

\* C15: two entries of the sources that carry the same logical network configuration, one
\* with upper-case and one with lower-case field names, give ScheduledTasks with identical
\* network configurations.
C15_Claim ==
  Discovered =>
    \A k1, k2 \in 1..Len(Tasks) :
       (/\ Tasks[k1].source = Tasks[k2].source
        /\ ComesFrom(Tasks[k1], Some(UpperCase(OwnAwsvpc)))
        /\ ComesFrom(Tasks[k2], Some(LowerCase(OwnAwsvpc))))
         => Tasks[k1].networkConfiguration = Tasks[k2].networkConfiguration

\* C16: every entry of the rule-based source comes from a target that carries ECS
\* parameters, and the source returns one entry per such target (with a cluster ARN that
\* passes the filter): a target without ECS parameters contributes nothing.
C16_Theorem ==
  Discovered =>
    /\ \A k \in 1..Len(Tasks) :
         Tasks[k].source = "eventbridge-rules" =>
           \E p \in QualifyingTargets : IsEntryOfTarget(Tasks[k], p)
    /\ Len(FromSource("eventbridge-rules"))
         = IF dAcc.rules.ok THEN Cardinality(QualifyingTargets) ELSE 0

\* a rule with a Lambda target, an ECS target without ARN and two ECS targets gives two
\* entries
C16_Witness ==
  /\ dpc = "discovered"
  /\ dIn.rules.items = <<Rule(Some("weekly"), FALSE, Some(<<TgtLambda, TgtLowerA, TgtNoArn, TgtB>>))>>
  /\ dIn.clusterArn = Undefined
  /\ Len(FromSource("eventbridge-rules")) = 2

\* C17: with a cluster filter, every returned task of either source has exactly the filter
\* as its cluster ARN, and every qualifying target or schedule of that cluster found by a
\* source that did not throw has its entry in the result.
C17_Theorem ==
  (Discovered /\ Defined(dIn.clusterArn)) =>
     /\ \A k \in 1..Len(Tasks) : Tasks[k].clusterArn = Get(dIn.clusterArn)
     /\ dAcc.rules.ok =>
          \A p \in QualifyingTargets : \E k \in 1..Len(Tasks) : IsEntryOfTarget(Tasks[k], p)
     /\ dAcc.scheduler.ok =>
          \A i \in QualifyingSchedules : \E k \in 1..Len(Tasks) : IsEntryOfSchedule(Tasks[k], i)

\* filter on cluster A: of a rule with targets on A and on B and of schedules on A and on B,
\* the entries of A are returned
C17_Witness ==
  /\ dpc = "discovered"
  /\ dIn.clusterArn = Some(ClusterA.clusterArn)
  /\ dIn.rules.items = <<Rule(Some("weekly"), FALSE, Some(<<TgtLambda, TgtLowerA, TgtNoArn, TgtB>>))>>
  /\ dIn.schedules.items = <<Schedule(Some("other"), FALSE, Some(TgtB)),
                             Schedule(Some("nightly"), FALSE, Some(TgtUpperA))>>
  /\ Len(Tasks) = 2

CountOf(ruleName, source) ==
  Cardinality({k \in 1..Len(Tasks) : Tasks[k].ruleName = ruleName /\ Tasks[k].source = source})

\* C18 as claimed: in every result the pair (rule name, provenance) identifies at most one
\* entry.
C18_Original ==
  Discovered =>
    \A k1, k2 \in 1..Len(Tasks) :
       (Tasks[k1].ruleName = Tasks[k2].ruleName /\ Tasks[k1].source = Tasks[k2].source)
         => k1 = k2

\* C18 as amended: in every result, the entries of the rule-based provenance that carry a
\* rule name are one per qualifying ECS target of the rules of that name, those of the
\* scheduler-based provenance one per qualifying schedule of that name; entries that share a
\* rule name but come from different sources are kept as separate entries.
C18_Amended ==
  Discovered =>
    \A n \in {Tasks[k].ruleName : k \in 1..Len(Tasks)}
            \cup {Get(dIn.rules.items[i].Name) :
                    i \in {i \in 1..Len(dIn.rules.items) : Defined(dIn.rules.items[i].Name)}}
            \cup {Get(dIn.schedules.items[i].Name) :
                    i \in {i \in 1..Len(dIn.schedules.items) : Defined(dIn.schedules.items[i].Name)}} :
       /\ CountOf(n, "eventbridge-rules")
            = IF dAcc.rules.ok
              THEN Cardinality({p \in QualifyingTargets : Get(dIn.rules.items[p[1]].Name) = n})
              ELSE 0
       /\ CountOf(n, "eventbridge-scheduler")
            = IF dAcc.scheduler.ok
              THEN Cardinality({i \in QualifyingSchedules : Get(dIn.schedules.items[i].Name) = n})
              ELSE 0

\* "nightly" exists as a rule and as a schedule: two entries
C18_Witness ==
  /\ dpc = "discovered"
  /\ CountOf("nightly", "eventbridge-rules") = 1
  /\ CountOf("nightly", "eventbridge-scheduler") = 1
  /\ Len(Tasks) = 2

\* C19: findScheduledTaskByRule returns the first task in discovery order (rule-based
\* entries before scheduler-based ones) whose rule name is the requested one, and returns
\* undefined, without throwing, when no task has that name.
C19_Theorem ==
  dpc = "found" =>
    LET hits == {k \in 1..Len(Tasks) : Tasks[k].ruleName = dOut.ruleName}
    IN /\ dOut.ok
       /\ hits = {} => dOut.found = Undefined
       /\ hits # {} =>
            /\ \E k \in hits : (\A j \in hits : k <= j) /\ dOut.found = Some(Tasks[k])
            /\ (\E k \in hits : Tasks[k].source = "eventbridge-rules")
                  => Get(dOut.found).source = "eventbridge-rules"

\* "hourly" names two entries of the rule-based source; the first is returned
C19_Witness ==
  /\ dpc = "found"
  /\ dOut.ruleName = "hourly"
  /\ CountOf("hourly", "eventbridge-rules") = 2
  /\ Tasks[1].ruleName # "hourly"
  /\ Get(dOut.found).taskDefinitionArn = TdJobNext

(***************************************************************************)
(* Properties of the command: faults of the calls of runScheduledTask      *)
(***************************************************************************)
\* the run ended because the last call of runScheduledTask (RunTask or a DescribeTasks,
\* in the loop or after it) threw an AWS fault
RunnerCallThrew ==
  /\ pc = "exited"
  /\ Defined(lastResponse)
  /\ Get(lastResponse).threw

\* C20: an AWS fault thrown by a call inside runScheduledTask (the launch, a poll or the
\* final describe) reaches the caller as handleAWSError classifies it once, with the same
\* class and message whether it was thrown at the launch or during a poll.
C20_Claim ==
  RunnerCallThrew =>
    /\ Defined(error)
    /\ Get(error).class = HandleAWSError(Get(lastResponse).fault).class
    /\ Get(error).message = HandleAWSError(Get(lastResponse).fault).message

(***************************************************************************)
(* Properties of the command: how an invocation ends                       *)
(***************************************************************************)
Exited == pc = "exited"
LastLine == stderr[Len(stderr)]
\* non-zero exit, the message of the error on the diagnostic stream, nothing on stdout
EndedInError ==
  /\ exitCode = Some(1)
  /\ Defined(error)
  /\ Len(stderr) > 0
  /\ LastLine.text \in {"Error: ", "Unexpected error:"}
  /\ LastLine.value = Some(Get(error).message)
  /\ stdout = <<>>
\* zero exit, one JSON document on stdout, no error
EndedWithJson ==
  /\ exitCode = Some(0)
  /\ ~Defined(error)
  /\ Len(stdout) = 1
  /\ stdout[1].kind \in {"list", "result"}
\* zero exit after "No, cancel": "Cancelled" on the diagnostic stream, nothing on stdout,
\* nothing launched
EndedCancelled ==
  /\ exitCode = Some(0)
  /\ ~Defined(error)
  /\ stdout = <<>>
  /\ stderr = <<[text |-> "Cancelled", value |-> Undefined, after |-> 0]>>
  /\ Len(events) > 0
  /\ events[Len(events)] = "confirmNo"
  /\ calls.runTask = 0
  /\ ~Defined(launchReq)

\* C21 as claimed: every invocation ends either with a non-zero exit and an error message
\* on the diagnostic stream, or with a zero exit and the JSON result on stdout; none exits
\* zero without having written the JSON.
C21_Original ==
  Exited =>
    /\ EndedInError \/ EndedWithJson
    /\ ~(EndedInError /\ EndedWithJson)

\* C21 as amended: every invocation that reaches run ends in exactly one of three ways: a
\* non-zero exit with the error message on the diagnostic stream, a zero exit with the JSON
\* on stdout, or, when the user answers "No, cancel" to the confirmation, a zero exit with
\* "Cancelled" on the diagnostic stream, nothing on stdout and nothing launched; an
\* invocation exits zero without JSON only in the third way.
C21_Amended ==
  /\ Exited =>
       /\ EndedInError \/ EndedWithJson \/ EndedCancelled
       /\ ~(EndedInError /\ EndedWithJson)
       /\ ~(EndedInError /\ EndedCancelled)
       /\ ~(EndedWithJson /\ EndedCancelled)
  /\ (\E i \in 1..Len(events) : events[i] = "confirmNo") => (Exited /\ EndedCancelled)

\* the user picked a cluster and a task and answered "No, cancel"
C21_Witness ==
  /\ Exited
  /\ EndedCancelled
  /\ Defined(selectedTask)

\* C26: after every successful execute-mode run, the JSON result is written to stdout
\* first, then the console deep-link of the launched task is written to the diagnostic
\* stream, and the URL is a defined value carried by the execution result.
C26_Claim ==
  (Exited /\ Defined(result)) =>
     /\ Len(stdout) = 1
     /\ stdout[1].kind = "result"
     /\ Len(stderr) > 0
     /\ LastLine.text = "AWS Console: "
     /\ LastLine.after = 1
     /\ Defined(LastLine.value)

(***************************************************************************)
(* Properties of the command: failures of the AWS calls of runScheduledTask *)
(***************************************************************************)
\* a call of the network-configuration resolution (ListServices, DescribeServices,
\* ListTasks, DescribeTasks) threw
ResolutionCallThrew == Defined(tried) /\ Get(tried).caught

\* C22: no failure of an AWS call of runScheduledTask is swallowed: when a call of the
\* network-configuration resolution, the launch or a describe of the polling throws, the
\* run ends with a non-zero exit and the error at the top level is that failure (as
\* classified), not a success and not another error.
C22_Claim ==
  /\ ResolutionCallThrew =>
       /\ Exited
       /\ exitCode = Some(1)
       /\ Defined(error)
       /\ Get(error).class # "TaskStartError"
       /\ ~Defined(launchReq)
  /\ RunnerCallThrew =>
       /\ exitCode = Some(1)
       /\ Defined(error)
       /\ Get(error).class # "TaskStartError"

(***************************************************************************)
(* discovery.ts: findNetworkConfigurationFromTasks on its own. The answers *)
(* of ListTasks / DescribeTasks are drawn in the initial state; one step   *)
(* applies the function to them                                            *)
(***************************************************************************)
MaxHistory == 2          \* tasks that ListTasks returns for one desiredStatus

\* tasks of the history worth telling apart
HistOtherOnly == HistTask(Some(TdJob), Some(<<OtherAttachment, EniNoSubnet>>))
HistSecondEni == HistTask(Some(TdWeb), Some(<<EniNoDetails, Eni("subnet-h3")>>))
HistNoDefinition == HistTask(Undefined, Some(<<OtherAttachment, Eni("subnet-h4")>>))
HistoryTasks == {HistJob, HistWeb, HistBare, HistOtherOnly, HistSecondEni, HistNoDefinition}

\* which call throws, if any: <<status, call>>
HistoryThrows == {<<"none", "none">>} \cup ({"RUNNING", "STOPPED"} \X {"list", "describe"})
HistoryAnswerFor(status, tasks, throws) ==
  HistoryAnswer(tasks, throws = <<status, "list">>, throws = <<status, "describe">>)

InitHistory ==
  /\ IdleCommand
  /\ IdleResolver
  /\ dpc = "start"
  /\ \E running \in SeqsUpTo(HistoryTasks, MaxHistory),
        stopped \in SeqsUpTo(HistoryTasks, MaxHistory),
        throws \in HistoryThrows :
       dIn = [env |-> HistoryEnv(HistoryAnswerFor("RUNNING", running, throws),
                                 HistoryAnswerFor("STOPPED", stopped, throws)),
              taskDefinitionArn |-> TdJob]
  /\ dAcc = Undefined
  /\ dOut = Undefined

FromTasks ==
  /\ dpc = "start"
  /\ dOut' = FindNetworkConfigurationFromTasks(dIn.env, dIn.taskDefinitionArn)
  /\ dpc' = "returned"
  /\ UNCHANGED <<cliVars, resVars, dIn, dAcc>>

NextHistory == FromTasks

SpecHistory == InitHistory /\ [][NextHistory]_vars

(***************************************************************************)
(* Properties of the task-history strategy                                 *)
(***************************************************************************)
HistoryReturned == dpc = "returned"
RunningAnswer == dIn.env["RUNNING"]
StoppedListed == \E i \in 1..Len(dOut.listCalls) : dOut.listCalls[i] = "STOPPED"

\* an attachment list gives a subnet: its first attachment of type ElasticNetworkInterface
\* has details, and the first detail named subnetId of these has a non-empty value
EniIndex(attachments) ==
  CHOOSE e \in 1..Len(attachments) :
     /\ attachments[e].type = Some("ElasticNetworkInterface")
     /\ \A j \in 1..(e - 1) : attachments[j].type # Some("ElasticNetworkInterface")
SubnetDetailIndex(details) ==
  CHOOSE d \in 1..Len(details) :
     /\ details[d].name = Some("subnetId")
     /\ \A j \in 1..(d - 1) : details[j].name # Some("subnetId")
GivesSubnet(t) ==
  /\ Defined(t.attachments)
  /\ \E e \in 1..Len(Get(t.attachments)) :
        Get(t.attachments)[e].type = Some("ElasticNetworkInterface")
  /\ LET eni == Get(t.attachments)[EniIndex(Get(t.attachments))]
     IN /\ Defined(eni.details)
        /\ \E d \in 1..Len(Get(eni.details)) : Get(eni.details)[d].name = Some("subnetId")
        /\ Truthy(Get(eni.details)[SubnetDetailIndex(Get(eni.details))].value)
SubnetOf(t) ==
  LET eni == Get(t.attachments)[EniIndex(Get(t.attachments))]
  IN Get(Get(eni.details)[SubnetDetailIndex(Get(eni.details))].value)

\* C23 as claimed: STOPPED tasks are listed only if the listing of RUNNING tasks found
\* none: whenever the RUNNING listing returns at least one task, no ListTasks call for
\* STOPPED is issued.
C23_Original ==
  (HistoryReturned /\ ~RunningAnswer.listThrows /\ Len(RunningAnswer.tasks) > 0)
     => ~StoppedListed

\* C23 as amended: RUNNING is listed first, and STOPPED tasks are listed only if the RUNNING
\* pass gave no configuration without throwing: the RUNNING listing returned no task, or the
\* description of the listed RUNNING tasks succeeded and none of them gives a subnet.
\* Whenever the RUNNING listing returns at least one task and one of those tasks gives a
\* subnet, or a call for RUNNING throws, no ListTasks call for STOPPED is issued.
C23_Amended ==
  HistoryReturned =>
    /\ dOut.listCalls \in {<<"RUNNING">>, <<"RUNNING", "STOPPED">>}
    /\ StoppedListed <=>
         /\ ~RunningAnswer.listThrows
         /\ \/ Len(RunningAnswer.tasks) = 0
            \/ /\ ~RunningAnswer.describeThrows
               /\ \A k \in 1..Len(RunningAnswer.tasks) : ~GivesSubnet(RunningAnswer.tasks[k])

\* a RUNNING task without attachments: STOPPED is listed and gives the configuration
C23_Witness ==
  /\ HistoryReturned
  /\ RunningAnswer.tasks = <<HistBare>>
  /\ dOut.listCalls = <<"RUNNING", "STOPPED">>
  /\ dOut.describeCalls = 2
  /\ Defined(dOut.cfg)

\* the tasks of the pass that returned, and the one chosen among them: the first of the
\* target's family that gives a subnet, else the first that gives a subnet
LastPassTasks == dIn.env[dOut.listCalls[Len(dOut.listCalls)]].tasks
IsOfTargetFamily(t) ==
  /\ Defined(t.taskDefinitionArn)
  /\ GetTaskDefinitionFamily(Get(t.taskDefinitionArn)) = GetTaskDefinitionFamily(dIn.taskDefinitionArn)
ChosenIndex ==
  LET giving == {k \in 1..Len(LastPassTasks) : GivesSubnet(LastPassTasks[k])}
      family == {k \in giving : IsOfTargetFamily(LastPassTasks[k])}
      among == IF family # {} THEN family ELSE giving
  IN CHOOSE k \in among : \A j \in among : k <= j

\* C24: a configuration returned by the task-history strategy has exactly one subnet, the
\* subnetId detail of the ElasticNetworkInterface attachment of the chosen task, no security
\* groups and public-IP assignment DISABLED; tasks without such an attachment or without a
\* subnetId detail never give a configuration.
C24_Theorem ==
  HistoryReturned =>
    /\ Defined(dOut.cfg) =>
         /\ \E k \in 1..Len(LastPassTasks) : GivesSubnet(LastPassTasks[k])
         /\ LET awsvpc == Get(Get(dOut.cfg).awsvpcConfiguration)
            IN /\ awsvpc.subnets = Some(<<SubnetOf(LastPassTasks[ChosenIndex])>>)
               /\ awsvpc.securityGroups = Undefined
               /\ awsvpc.assignPublicIp = Some("DISABLED")
    /\ (\A st \in {"RUNNING", "STOPPED"} : \A k \in 1..Len(dIn.env[st].tasks) :
           ~GivesSubnet(dIn.env[st].tasks[k]))
         => ~Defined(dOut.cfg)

\* the first RUNNING task has a subnetId only on an attachment of another type, the second
\* is of another family and has the network interface: its subnet is the configuration
C24_Witness ==
  /\ HistoryReturned
  /\ RunningAnswer.tasks = <<HistOtherOnly, HistWeb>>
  /\ dOut.cfg = Some(NetCfg(Some(Awsvpc(Some(<<"subnet-h2">>), Undefined, Some("DISABLED")))))

(***************************************************************************)
(* index.ts: handleListMode call by call. The answers of the AWS APIs are  *)
(* drawn in the initial state; discoverClusters and discoverScheduledTasks *)
(* are both under way (Promise.all, lines 133-136) and each step is the    *)
(* completion of one call of either of them                                *)
(***************************************************************************)
\* the pages of ListClusters: the ARNs of no cluster, of one, of two on one page or on two
ListModePages ==
  {<<<<>>>>, <<<<ClusterA.clusterArn>>>>, <<<<ClusterA.clusterArn, ClusterB.clusterArn>>>>,
   <<<<ClusterA.clusterArn>>, <<ClusterB.clusterArn>>>>,
   <<<<ClusterB.clusterArn>>, <<ClusterA.clusterArn>>>>}
\* DescribeClusters: the clusters of the ARNs of a batch
DescribedClusters(batch) ==
  [k \in 1..Len(batch) |-> CHOOSE c \in Clusters : c.clusterArn = batch[k]]

InitListMode ==
  /\ IdleCommand
  /\ IdleResolver
  /\ dpc = "all"
  /\ \E pages \in ListModePages, throwsAt \in 0..3,
        rules \in SourceAnswers("eventbridge-rules"),
        scheduler \in SourceAnswers("eventbridge-scheduler"),
        clusterArn \in {Undefined, Some(ClusterA.clusterArn)} :
       dIn = [pages |-> pages, throwsAt |-> throwsAt, rules |-> rules,
              scheduler |-> scheduler, clusterArn |-> clusterArn]
  /\ dAcc = [cpos |-> "list", page |-> 1, i |-> 0, clusterArns |-> <<>>, clusters |-> <<>>,
             ccalls |-> 0, tpos |-> "rules", tasks |-> <<>>, order |-> <<>>]
  /\ dOut = Undefined

\* lines 138-157: the JSON of the two results
ListJson(clusters, tasks) ==
  [clusters |-> [k \in 1..Len(clusters) |->
                   [name |-> clusters[k].clusterName, arn |-> clusters[k].clusterArn]],
   scheduledTasks |-> [k \in 1..Len(tasks) |->
                         [ruleName |-> tasks[k].ruleName, cluster |-> tasks[k].clusterArn,
                          taskDefinition |-> tasks[k].taskDefinitionArn,
                          launchType |-> tasks[k].launchType, source |-> tasks[k].source]]]

\* Promise.all: fulfilled when both promises are
PromiseAllSettledFirst(cpos, tpos) == cpos = "settled" \/ tpos = "settled"
PromiseAllSettled(cpos, tpos) == cpos = "settled" /\ tpos = "settled"

\* a call of discoverClusters throws: handleAWSError, Promise.all rejects, main exits
ListModeClustersThrow ==
  /\ dpc = "all"
  /\ dAcc.cpos \in {"list", "describe"}
  /\ dAcc.ccalls + 1 = dIn.throwsAt
  /\ \E f \in Faults : dOut' = Fault(HandleAWSError(f))
  /\ dAcc' = [dAcc EXCEPT !.ccalls = @ + 1,
                          !.order = Append(@, IF dAcc.cpos = "list" THEN "ListClusters"
                                              ELSE "DescribeClusters")]
  /\ dpc' = "threw"
  /\ UNCHANGED <<cliVars, resVars, dIn>>

\* discoverClusters: a ListClusters call completes
ListModeListClusters ==
  /\ dpc = "all"
  /\ dAcc.cpos = "list"
  /\ dAcc.ccalls + 1 # dIn.throwsAt
  /\ LET arns == dAcc.clusterArns \o dIn.pages[dAcc.page]
         more == dAcc.page < Len(dIn.pages)
     IN dAcc' = [dAcc EXCEPT !.clusterArns = arns, !.page = @ + 1, !.ccalls = @ + 1,
                             !.cpos = IF more THEN "list"
                                      ELSE IF Len(arns) = 0 THEN "settled" ELSE "describe",
                             !.order = Append(@, "ListClusters")]
  /\ UNCHANGED <<cliVars, resVars, dpc, dIn, dOut>>

\* discoverClusters: a DescribeClusters call completes
ListModeDescribeClusters ==
  /\ dpc = "all"
  /\ dAcc.cpos = "describe"
  /\ dAcc.ccalls + 1 # dIn.throwsAt
  /\ LET batch == Batch(dAcc.clusterArns, dAcc.i)
         last == dAcc.i + ClusterBatch >= Len(dAcc.clusterArns)
     IN dAcc' = [dAcc EXCEPT !.clusters = @ \o DescribedClusters(batch),
                             !.i = @ + ClusterBatch, !.ccalls = @ + 1,
                             !.cpos = IF last THEN "settled" ELSE "describe",
                             !.order = Append(@, "DescribeClusters")]
  /\ UNCHANGED <<cliVars, resVars, dpc, dIn, dOut>>

\* discoverScheduledTasks: the rule-based source completes (or throws and is caught)
ListModeRulesSource ==
  /\ dpc = "all"
  /\ dAcc.tpos = "rules"
  /\ dAcc' = [dAcc EXCEPT !.tasks = @ \o SourceResult(dIn.rules, dIn.clusterArn),
                          !.tpos = "scheduler",
                          !.order = Append(@, "Rules")]
  /\ UNCHANGED <<cliVars, resVars, dpc, dIn, dOut>>

\* discoverScheduledTasks: the scheduler-based source completes (or throws and is caught)
ListModeSchedulerSource ==
  /\ dpc = "all"
  /\ dAcc.tpos = "scheduler"
  /\ dAcc' = [dAcc EXCEPT !.tasks = @ \o SourceResult(dIn.scheduler, dIn.clusterArn),
                          !.tpos = "settled",
                          !.order = Append(@, "Scheduler")]
  /\ UNCHANGED <<cliVars, resVars, dpc, dIn, dOut>>

\* lines 138-159: both settled; console.log of the JSON
ListModePrint ==
  /\ dpc = "all"
  /\ PromiseAllSettled(dAcc.cpos, dAcc.tpos)
  /\ dOut' = Answer(ListJson(dAcc.clusters, dAcc.tasks))
  /\ dpc' = "printed"
  /\ UNCHANGED <<cliVars, resVars, dIn, dAcc>>

NextListMode ==
  \/ ListModeClustersThrow
  \/ ListModeListClusters
  \/ ListModeDescribeClusters
  \/ ListModeRulesSource
  \/ ListModeSchedulerSource
  \/ ListModePrint

SpecListMode == InitListMode /\ [][NextListMode]_vars

\* what the responses alone determine: the clusters of the listing, in listing order, and
\* the tasks of the rule-based source followed by those of the scheduler-based source
ResponseClusters == DescribedClusters(Flatten(dIn.pages))
ResponseTasks == DiscoverScheduledTasks(dIn.rules, dIn.scheduler, dIn.clusterArn)
\* the calls of one discovery, in the order they completed
CallsOf(names) == SelectSeq(dAcc.order, LAMBDA c : c \in names)

\* C25: in list mode the two discoveries run concurrently, and whatever the order in which
\* their calls complete, the JSON written is the one the responses determine: the clusters
\* in listing order and the scheduled tasks in discovery order; nothing is written when
\* discoverClusters throws.
C25_Theorem ==
  /\ dpc = "printed" =>
       /\ dOut = Answer(ListJson(ResponseClusters, ResponseTasks))
       /\ CallsOf({"Rules", "Scheduler"}) = <<"Rules", "Scheduler">>
  /\ dpc = "threw" => ~dOut.ok
  /\ dpc = "all" => dOut = Undefined

\* the second ListClusters call completes after the whole of discoverScheduledTasks, the
\* first before: two clusters and two tasks are written
C25_Witness ==
  /\ dpc = "printed"
  /\ dAcc.order = <<"ListClusters", "Rules", "Scheduler", "ListClusters", "DescribeClusters">>
  /\ Len(dOut.value.clusters) = 2
  /\ Len(dOut.value.scheduledTasks) = 2
  /\ dOut.value.clusters[1].arn = ClusterB.clusterArn
  /\ dOut.value.scheduledTasks[1].source = "eventbridge-rules"

\* the same answers, with the calls of discoverClusters completing first
C25_WitnessClustersFirst ==
  /\ dpc = "printed"
  /\ dAcc.order = <<"ListClusters", "ListClusters", "DescribeClusters", "Rules", "Scheduler">>
  /\ Len(dOut.value.clusters) = 2
  /\ Len(dOut.value.scheduledTasks) = 2
  /\ dOut.value.clusters[1].arn = ClusterB.clusterArn
  /\ dOut.value.scheduledTasks[1].source = "eventbridge-rules"

(***************************************************************************)
(* Properties of the command: the launch request                           *)
(***************************************************************************)
\* C27: every RunTask request submitted for a task of launch type FARGATE carries a network
\* configuration with a non-empty subnet list, whichever source the task came from and
\* whichever way the configuration was obtained.
C27_Claim ==
  (Defined(launchReq) /\ Get(launchReq).launchType = Some("FARGATE")) =>
     SubnetCount(Get(launchReq).networkConfiguration) > 0

\* C28: when the describe of a poll attempt of the loop returns no task, the run fails at
\* that attempt with the TaskStartError "Task not found during polling": no sleep follows
\* and DescribeTasks is not called again, also at the first attempt after the launch.
C28_Theorem ==
  (/\ Defined(lastResponse)
   /\ calls.describeTasks > 0
   /\ calls.describeTasks <= MAX_POLL_ATTEMPTS
   /\ ~Get(lastResponse).threw
   /\ ~HasTask(Get(lastResponse))) =>
     /\ Exited
     /\ exitCode = Some(1)
     /\ Get(error).class = "TaskStartError"
     /\ Get(error).message = "Task not found during polling"
     /\ calls.sleeps = calls.describeTasks - 1
     /\ attempts = calls.describeTasks - 1
     /\ ~ENABLED Poll
     /\ ~ENABLED FinalDescribe
     /\ stdout = <<>>

\* the first describe after the launch answers with an empty list of tasks
C28_Witness ==
  /\ Exited
  /\ calls.runTask = 1
  /\ calls.describeTasks = 1
  /\ calls.sleeps = 0
  /\ Get(lastResponse) = DescribeReturns(Some(<<>>))
  /\ Get(error).message = "Task not found during polling"

(***************************************************************************)
(* Property of the scheduler-based source                                  *)
(***************************************************************************)
\* the k-th qualifying schedule of the listing
KthQualifying(k) ==
  CHOOSE i \in QualifyingSchedules : Cardinality({j \in QualifyingSchedules : j < i}) = k - 1
ThrewAt(i) == Defined(dIn.schedules.items[i].Name) /\ dIn.schedules.items[i].threw

\* C29: in the scheduler-based source a failure fetching one schedule removes only that
\* schedule: the source does not fail, and its entries are those of every other qualifying
\* schedule of the listing, before and after the failing one, in listing order.
C29_Theorem ==
  (Discovered /\ ~dIn.schedules.listThrows) =>
     LET entries == FromSource("eventbridge-scheduler")
     IN /\ dAcc.scheduler.ok
        /\ Len(entries) = Cardinality(QualifyingSchedules)
        /\ \A k \in 1..Len(entries) : IsEntryOfSchedule(entries[k], KthQualifying(k))
        /\ \A i \in 1..Len(dIn.schedules.items) : ThrewAt(i) => i \notin QualifyingSchedules

\* GetSchedule throws for the second of three schedules: the first and the third are
\* returned, in this order
C29_Witness ==
  /\ dpc = "discovered"
  /\ Len(dIn.schedules.items) = 3
  /\ ThrewAt(2)
  /\ dIn.schedules.items[1].Name = Some("lowcase")
  /\ dIn.schedules.items[3].Name = Some("nightly")
  /\ Len(FromSource("eventbridge-scheduler")) = 2
  /\ FromSource("eventbridge-scheduler")[1].ruleName = "lowcase"
  /\ FromSource("eventbridge-scheduler")[2].ruleName = "nightly"

(***************************************************************************)
(* wt/index.ts: handleCreate, step by step. The local branches and the     *)
(* directories under .worktrees are the environment; other processes may   *)
(* change them between two steps                                           *)
(***************************************************************************)
MaxIndex == 3            \* highest index of a worktree name the environment may hold

\* `${currentBranch}-wt-${index}` and join(worktreesDir, candidate)
Candidate(currentBranch, index) == <<currentBranch, "-wt-", index>>
TargetDir(candidate) == <<".worktrees", candidate>>
WtNames == {Candidate("main", i) : i \in 1..MaxIndex}

\* line 98: if (exists || dirExists)
CandidateTakenBranchOnly(exists, dirExists) == exists
CandidateTaken(exists, dirExists) == exists \/ dirExists

InitWt ==
  /\ IdleCommand
  /\ IdleResolver
  /\ dpc = "start"
  /\ \E branches \in SUBSET WtNames, dirs \in SUBSET {TargetDir(c) : c \in WtNames} :
       dIn = [branches |-> branches, dirs |-> dirs]
  /\ dAcc = [currentBranch |-> Undefined, index |-> 1, observed |-> <<>>, added |-> <<>>]
  /\ dOut = Undefined

\* lines 81-85: getRepoRoot and getCurrentBranch (either may throw a WtError), mkdir
WtStart ==
  /\ dpc = "start"
  /\ \E inRepository \in BOOLEAN, onBranch \in BOOLEAN :
       IF inRepository /\ onBranch
       THEN /\ dAcc' = [dAcc EXCEPT !.currentBranch = Some("main")]
            /\ dpc' = "probe"
            /\ UNCHANGED dOut
       ELSE /\ dOut' = Fault(MkError("WtError",
                                     IF inRepository
                                     THEN "Could not determine current branch (Detached HEAD?)."
                                     ELSE "Not inside a git repository.",
                                     Undefined, Undefined))
            /\ dpc' = "threw"
            /\ UNCHANGED dAcc
  /\ UNCHANGED <<cliVars, resVars, dIn>>

\* lines 92-104: one iteration of while (true)
WtProbe ==
  /\ dpc = "probe"
  /\ LET candidate == Candidate(Get(dAcc.currentBranch), dAcc.index)
         exists == candidate \in dIn.branches
         dirExists == TargetDir(candidate) \in dIn.dirs
         seen == Append(dAcc.observed, [candidate |-> candidate, exists |-> exists,
                                        dirExists |-> dirExists])
     IN IF CandidateTaken(exists, dirExists)
        THEN /\ dAcc' = [dAcc EXCEPT !.index = @ + 1, !.observed = seen]
             /\ UNCHANGED dpc
        ELSE /\ dAcc' = [dAcc EXCEPT !.observed = seen]
             /\ dpc' = "add"
  /\ UNCHANGED <<cliVars, resVars, dIn, dOut>>

\* lines 108-118: git worktree add targetDir -b branch; a non-zero exit is a WtError
WtAdd ==
  /\ dpc = "add"
  /\ LET branch == Candidate(Get(dAcc.currentBranch), dAcc.index)
         free == branch \notin dIn.branches /\ TargetDir(branch) \notin dIn.dirs
     IN /\ dAcc' = [dAcc EXCEPT !.added = Append(@, [targetDir |-> TargetDir(branch),
                                                     branch |-> branch])]
        /\ \E gitOk \in {free, FALSE} :
             IF gitOk
             THEN /\ dIn' = [dIn EXCEPT !.branches = @ \cup {branch},
                                        !.dirs = @ \cup {TargetDir(branch)}]
                  /\ dOut' = Answer(branch)
                  /\ dpc' = "created"
             ELSE /\ dOut' = Fault(MkError("WtError", "Failed to create worktree.",
                                           Undefined, Undefined))
                  /\ dpc' = "threw"
                  /\ UNCHANGED dIn
  /\ UNCHANGED <<cliVars, resVars>>

\* between two steps of handleCreate another process creates or deletes a branch or a
\* directory
WtOtherProcess ==
  /\ dpc \in {"probe", "add"}
  /\ \E c \in WtNames :
       \/ dIn' = [dIn EXCEPT !.branches = IF c \in @ THEN @ \ {c} ELSE @ \cup {c}]
       \/ dIn' = [dIn EXCEPT !.dirs = IF TargetDir(c) \in @ THEN @ \ {TargetDir(c)}
                                      ELSE @ \cup {TargetDir(c)}]
  /\ UNCHANGED <<cliVars, resVars, dpc, dAcc, dOut>>

NextWt == WtStart \/ WtProbe \/ WtAdd \/ WtOtherProcess

SpecWt == InitWt /\ [][NextWt]_vars

\* C30: wt create names the worktree <current-branch>-wt-n, n the smallest integer >= 1
\* for which neither a local branch of that name nor a directory .worktrees/<name> existed
\* when it was checked: every smaller index was seen taken, the names are checked in the
\* order 1, 2, ..., git worktree add is called at most once, with that name and its
\* directory, never with a name or a directory seen to exist, and n is 1 when the first
\* check finds nothing.
C30_Theorem ==
  /\ dpc \in {"start", "probe", "add", "created", "threw"}
  /\ Len(dAcc.added) <= 1
  /\ \A m \in 1..Len(dAcc.observed) :
       dAcc.observed[m].candidate = Candidate("main", m)
  /\ \A m \in 1..(Len(dAcc.observed) - 1) :
       dAcc.observed[m].exists \/ dAcc.observed[m].dirExists
  /\ dpc = "probe" => dAcc.index = Len(dAcc.observed) + 1
  /\ (dpc \in {"add", "created"} \/ Len(dAcc.added) = 1) =>
       LET n == Len(dAcc.observed)
       IN /\ n >= 1
          /\ dAcc.index = n
          /\ ~dAcc.observed[n].exists
          /\ ~dAcc.observed[n].dirExists
          /\ \A k \in 1..Len(dAcc.added) :
               /\ dAcc.added[k].branch = Candidate("main", n)
               /\ dAcc.added[k].targetDir = TargetDir(Candidate("main", n))
  /\ dpc = "created" => Len(dAcc.added) = 1 /\ dOut = Answer(dAcc.added[1].branch)
  /\ (Len(dAcc.observed) >= 1 /\ ~dAcc.observed[1].exists /\ ~dAcc.observed[1].dirExists)
       => Len(dAcc.observed) = 1

\* main-wt-1 exists as a branch only, main-wt-2 as a directory only: main-wt-3 is created
C30_Witness ==
  /\ dpc = "created"
  /\ Len(dAcc.observed) = 3
  /\ dAcc.observed[1].exists /\ ~dAcc.observed[1].dirExists
  /\ ~dAcc.observed[2].exists /\ dAcc.observed[2].dirExists
  /\ dOut = Answer(Candidate("main", 3))

\* no worktree before: main-wt-1
C30_WitnessFirst ==
  /\ dpc = "created"
  /\ Len(dAcc.observed) = 1
  /\ dOut = Answer(Candidate("main", 1))

====
